---- MODULE Spec2Model ----
(***************************************************************************)
(* Event ingestion, verification and upsert pipeline of link-fs.           *)
(*                                                                         *)
(* Texts are sequences of symbols (one-character strings, or one JSON      *)
(* token where the text is model output).  null, undefined and a           *)
(* non-string JSON value are the one-symbol sequences NULL, ABSENT, NUM,   *)
(* whose symbol is no character of any text.                               *)
(***************************************************************************)
EXTENDS Integers, Sequences, FiniteSets, TLC

VARIABLES config, rows, nextId, clock, run, lastStmt, started, listed, validated,
          extracted, hashed

vars == <<config, rows, nextId, clock, run, lastStmt, started, listed, validated,
          extracted, hashed>>

----------------------------------------------------------------------------
(* Values *)

NULL == <<"null">>
ABSENT == <<"undefined">>
NUM == <<"number">>

IsString(v) == v \notin {NULL, ABSENT, NUM}

\* JavaScript's  v ?? d
Coalesce(v, d) == IF v \in {NULL, ABSENT} THEN d ELSE v

Digits == {"0", "1", "2", "3", "4", "5", "6", "7", "8", "9"}

Letters == {"a", "c", "e", "n", "o", "p", "r", "t", "x", "h", "A", "B", "V", "W", "H", "S"}

RECURSIVE JoinWith(_, _)
\* Array.prototype.join(sep) on an array of texts
JoinWith(parts, sep) ==
    IF Len(parts) = 0 THEN <<>>
    ELSE IF Len(parts) = 1 THEN parts[1]
    ELSE parts[1] \o sep \o JoinWith(Tail(parts), sep)

RECURSIVE SeqToSet(_)
SeqToSet(s) == IF s = <<>> THEN {} ELSE {Head(s)} \cup SeqToSet(Tail(s))

----------------------------------------------------------------------------
(* EventSchema (zod) *)

EXPO == <<"e", "x", "p", "o">>
CONCERT == <<"c", "o", "n", "c", "e", "r", "t">>

\* a variant of MatchesDateRegex: ten characters of any kind
MatchesDateLoose(s) == Len(s) = 10

\* /^\d{4}-\d{2}-\d{2}$/
MatchesDateRegex(s) ==
    /\ Len(s) = 10
    /\ \A i \in {1, 2, 3, 4, 6, 7, 9, 10} : s[i] \in Digits
    /\ s[5] = "-"
    /\ s[8] = "-"

\* z.string().url(): the text parses as a URL, i.e. a scheme of letters
\* followed by ":" and something after it
IsUrl(s) ==
    \E i \in 2..Len(s) :
        /\ s[i] = ":"
        /\ \A j \in 1..(i - 1) : s[j] \in Letters
        /\ i < Len(s)

OptionalNullableString(v) == v \in {NULL, ABSENT} \/ IsString(v)

\* EventSchema.safeParse(item).success
SchemaAccepts(item) ==
    /\ IsString(item.title) /\ Len(item.title) >= 1
    /\ item.type \in {EXPO, CONCERT}
    /\ OptionalNullableString(item.venue)
    /\ OptionalNullableString(item.address)
    /\ IsString(item.start_date) /\ MatchesDateRegex(item.start_date)
    /\ item.end_date \in {NULL, ABSENT}
         \/ (IsString(item.end_date) /\ MatchesDateRegex(item.end_date))
    /\ item.source_url \in {NULL, ABSENT}
         \/ (IsString(item.source_url) /\ IsUrl(item.source_url))
    /\ OptionalNullableString(item.price_range)
    /\ OptionalNullableString(item.organizer)

\* EventSchema.safeParse(item).data: the declared keys only (an unknown key
\* such as city is stripped)
SchemaData(item) ==
    [title |-> item.title, type |-> item.type, venue |-> item.venue,
     address |-> item.address, start_date |-> item.start_date,
     end_date |-> item.end_date, source_url |-> item.source_url,
     price_range |-> item.price_range, organizer |-> item.organizer]

----------------------------------------------------------------------------
(* What the primary model may answer: raw records, one JSON token each *)

D1 == <<"2", "0", "2", "5", "-", "0", "3", "-", "0", "1">>
D2 == <<"2", "0", "2", "5", "-", "0", "3", "-", "0", "5">>

RawNames == {"rA", "rA2", "rB", "rBadType", "rBadDate"}

RawOf(tok) ==
    CASE tok = "rA" ->
           [title |-> <<"A">>, type |-> EXPO, venue |-> <<"V">>, address |-> NULL,
            start_date |-> D1, end_date |-> ABSENT, source_url |-> NULL,
            price_range |-> NULL, organizer |-> ABSENT, city |-> ABSENT]
      [] tok = "rA2" ->
           [title |-> <<"A">>, type |-> CONCERT, venue |-> <<"V">>, address |-> <<"x">>,
            start_date |-> D1, end_date |-> D2, source_url |-> <<"h", ":", "x">>,
            price_range |-> <<"p">>, organizer |-> <<"o">>, city |-> <<"W">>]
      [] tok = "rB" ->
           [title |-> <<"B">>, type |-> CONCERT, venue |-> NULL, address |-> ABSENT,
            start_date |-> D2, end_date |-> NULL, source_url |-> ABSENT,
            price_range |-> ABSENT, organizer |-> NULL, city |-> ABSENT]
      [] tok = "rBadType" ->
           [title |-> <<"A">>, type |-> <<"x">>, venue |-> <<"V">>, address |-> NULL,
            start_date |-> D1, end_date |-> ABSENT, source_url |-> NULL,
            price_range |-> NULL, organizer |-> ABSENT, city |-> ABSENT]
      [] tok = "rBadDate" ->
           [title |-> <<"B">>, type |-> EXPO, venue |-> NULL, address |-> NULL,
            start_date |-> <<"2", "0", "2", "5">>, end_date |-> NULL, source_url |-> NULL,
            price_range |-> NUM, organizer |-> NULL, city |-> ABSENT]

\* JSON.stringify of an array of records
Stringify(items) ==
    <<"[">> \o JoinWith([i \in 1..Len(items) |-> <<items[i]>>], <<",">>) \o <<"]">>

RawArrays ==
    {<<>>, <<"rA">>, <<"rA2">>, <<"rB">>, <<"rBadType">>, <<"rA", "rA2">>,
     <<"rBadType", "rA">>, <<"rA", "rBadDate">>}

\* message.content of the primary answer: exact arrays, an array inside
\* prose, an object wrapping an array, one bare object, prose, a truncated
\* array, blank text, no content, a non-string content
PrimaryTexts ==
    {Stringify(a) : a \in RawArrays}
      \cup {<<"p">> \o Stringify(<<"rA">>) \o <<"p">>,
            <<"{", "k", ":">> \o Stringify(<<"rA">>) \o <<"}">>,
            <<"rA">>, <<"p">>, <<"[", "rA">>, <<" ">>, <<>>, ABSENT, NUM}

PrimaryOutcomes ==
    [kind : {"throw", "status", "badbody"}, text : {<<>>}]
      \cup [kind : {"content"}, text : PrimaryTexts]

----------------------------------------------------------------------------
(* JSON.parse on token texts *)

RECURSIVE StripWs(_)
StripWs(t) ==
    IF t = <<>> THEN <<>>
    ELSE IF Head(t) = " " THEN StripWs(Tail(t))
    ELSE <<Head(t)>> \o StripWs(Tail(t))

\* String.prototype.trim() = ''
TrimIsEmpty(t) == \A i \in 1..Len(t) : t[i] = " "

IsArrayText(t) ==
    /\ Len(t) >= 2
    /\ t[1] = "["
    /\ t[Len(t)] = "]"
    /\ LET inner == SubSeq(t, 2, Len(t) - 1)
       IN  \/ inner = <<>>
           \/ /\ Len(inner) % 2 = 1
              /\ \A i \in 1..Len(inner) :
                    IF i % 2 = 1 THEN inner[i] \in RawNames ELSE inner[i] = ","

ArrayItems(t) ==
    LET inner == SubSeq(t, 2, Len(t) - 1)
    IN  [i \in 1..((Len(inner) + 1) \div 2) |-> inner[2 * i - 1]]

IsObjectText(t) ==
    \/ Len(t) = 1 /\ t[1] \in RawNames
    \/ /\ Len(t) >= 5
       /\ t[1] = "{" /\ t[2] = "k" /\ t[3] = ":" /\ t[Len(t)] = "}"
       /\ IsArrayText(SubSeq(t, 4, Len(t) - 1))

\* JSON.parse(text): threw, or a value that is an array (with its items) or not
JSONParse(text) ==
    LET t == StripWs(text)
    IN  IF IsArrayText(t) THEN [ok |-> TRUE, isArray |-> TRUE, items |-> ArrayItems(t)]
        ELSE IF IsObjectText(t) THEN [ok |-> TRUE, isArray |-> FALSE, items |-> <<>>]
        ELSE [ok |-> FALSE, isArray |-> FALSE, items |-> <<>>]

\* String.prototype.indexOf: 0 when absent, else the first position (1-based)
IndexOf(t, c) ==
    IF \E i \in 1..Len(t) : t[i] = c
    THEN CHOOSE i \in 1..Len(t) : t[i] = c /\ \A j \in 1..(i - 1) : t[j] # c
    ELSE 0

LastIndexOf(t, c) ==
    IF \E i \in 1..Len(t) : t[i] = c
    THEN CHOOSE i \in 1..Len(t) : t[i] = c /\ \A j \in (i + 1)..Len(t) : t[j] # c
    ELSE 0

\* a variant of extractJsonArrayFromResponse: the slice ends at the first "]"
extractJsonArrayFirstClosing(responseText) ==
    LET arrayStart == IndexOf(responseText, "[")
        arrayEnd == IndexOf(responseText, "]")
    IN  IF arrayStart = 0 \/ arrayEnd = 0 \/ arrayEnd <= arrayStart
        THEN [found |-> FALSE, items |-> <<>>]
        ELSE LET parsedData == JSONParse(SubSeq(responseText, arrayStart, arrayEnd))
             IN  IF parsedData.ok /\ parsedData.isArray
                 THEN [found |-> TRUE, items |-> parsedData.items]
                 ELSE [found |-> FALSE, items |-> <<>>]

\* the array, or null (found = FALSE)
extractJsonArrayFromResponse(responseText) ==
    LET arrayStart == IndexOf(responseText, "[")
        arrayEnd == LastIndexOf(responseText, "]")
    IN  IF arrayStart = 0 \/ arrayEnd = 0 \/ arrayEnd <= arrayStart
        THEN [found |-> FALSE, items |-> <<>>]
        ELSE LET parsedData == JSONParse(SubSeq(responseText, arrayStart, arrayEnd))
             IN  IF parsedData.ok /\ parsedData.isArray
                 THEN [found |-> TRUE, items |-> parsedData.items]
                 ELSE [found |-> FALSE, items |-> <<>>]

\* a variant of RawEventData: the slice is tried as well when the whole
\* text parses to a value that is no array
RawEventDataSliceOnNonArray(aiResponse) ==
    LET direct == JSONParse(aiResponse)
    IN  IF direct.ok /\ direct.isArray
        THEN direct.items
        ELSE extractJsonArrayFromResponse(aiResponse).items

\* parseAndValidateEvents up to rawEventData: the raw items to validate
RawEventData(aiResponse) ==
    LET direct == JSONParse(aiResponse)
    IN  IF direct.ok
        THEN (IF direct.isArray THEN direct.items ELSE <<>>)
        ELSE extractJsonArrayFromResponse(aiResponse).items

\* a variant of SchemaFilter: one invalid record empties the batch
SchemaFilterAllOrNothing(items) ==
    IF \A i \in 1..Len(items) : SchemaAccepts(RawOf(items[i]))
    THEN [i \in 1..Len(items) |-> SchemaData(RawOf(items[i]))]
    ELSE <<>>

RECURSIVE SchemaFilter(_)
\* the loop over rawEventData: the schema-valid records, in order
SchemaFilter(items) ==
    IF items = <<>> THEN <<>>
    ELSE IF SchemaAccepts(RawOf(Head(items)))
         THEN <<SchemaData(RawOf(Head(items)))>> \o SchemaFilter(Tail(items))
         ELSE SchemaFilter(Tail(items))

----------------------------------------------------------------------------
(* Hashing and the events table *)

\* crypto md5 hex digest, taken as collision free: a tagged copy of its input
md5(baseString) == <<"md5">> \o baseString

\* a variant of calculateEventHash: the type is hashed too
calculateEventHashWithType(eventData) ==
    md5(JoinWith(<<eventData.title, eventData.start_date,
                   Coalesce(eventData.venue, <<>>), Coalesce(eventData.city, <<>>),
                   eventData.type>>, <<"|">>))

calculateEventHash(eventData) ==
    LET hashComponents ==
            <<eventData.title, eventData.start_date,
              Coalesce(eventData.venue, <<>>), Coalesce(eventData.city, <<>>)>>
        baseString == JoinWith(hashComponents, <<"|">>)
    IN  md5(baseString)

\* eventsWithHash: the inputs of the sync paths carry no hash of their own
WithHash(eventData) ==
    [title |-> eventData.title, type |-> eventData.type, city |-> eventData.city,
     venue |-> eventData.venue, address |-> eventData.address,
     start_date |-> eventData.start_date, end_date |-> eventData.end_date,
     source_url |-> eventData.source_url, price_range |-> eventData.price_range,
     organizer |-> eventData.organizer, hash |-> calculateEventHash(eventData)]

\* a row inserted for one value set: id from the auto-increment, both
\* timestamps now
NewRow(v, id, now) ==
    [id |-> id, title |-> v.title, type |-> v.type, city |-> v.city,
     venue |-> v.venue, address |-> v.address, start_date |-> v.start_date,
     end_date |-> v.end_date, source_url |-> v.source_url,
     price_range |-> v.price_range, organizer |-> v.organizer, hash |-> v.hash,
     created_at |-> now, updated_at |-> now]

\* a mutant of OverwriteRow: end_date and updated_at are left out of the
\* overwrite list
OverwriteRowPartial(row, v, now) ==
    [row EXCEPT !.title = v.title, !.type = v.type, !.city = v.city,
                !.venue = v.venue, !.address = v.address,
                !.start_date = v.start_date, !.source_url = v.source_url,
                !.price_range = v.price_range, !.organizer = v.organizer]

\* a variant of OverwriteRow: the row is written anew, as REPLACE would
OverwriteRowAnew(row, v, now) == NewRow(v, row.id, now)

\* orUpdate([...], ['hash']): the columns overwritten on a duplicate hash
OverwriteRow(row, v, now) ==
    [row EXCEPT !.title = v.title, !.type = v.type, !.city = v.city,
                !.venue = v.venue, !.address = v.address,
                !.start_date = v.start_date, !.end_date = v.end_date,
                !.source_url = v.source_url, !.price_range = v.price_range,
                !.organizer = v.organizer, !.updated_at = now]

\* a mutant of InsertOrUpdate: no unique index, every value set is inserted
InsertAlways(rs, v, nid, now) ==
    [rows |-> rs \cup {NewRow(v, nid, now)}, nextId |-> nid + 1]

\* a mutant of InsertOrUpdate: the duplicate replaces the row and a value
\* set with a stored hash removes it instead
DeleteOnDuplicate(rs, v, nid, now) ==
    IF \E row \in rs : row.hash = v.hash
    THEN [rows |-> {row \in rs : row.hash # v.hash}, nextId |-> nid]
    ELSE [rows |-> rs \cup {NewRow(v, nid, now)}, nextId |-> nid + 1]

\* one value set of INSERT ... ON DUPLICATE KEY UPDATE under the unique
\* index on hash
InsertOrUpdate(rs, v, nid, now) ==
    IF \E row \in rs : row.hash = v.hash
    THEN [rows |-> {IF row.hash = v.hash THEN OverwriteRow(row, v, now) ELSE row :
                        row \in rs},
          nextId |-> nid]
    ELSE [rows |-> rs \cup {NewRow(v, nid, now)}, nextId |-> nid + 1]

RECURSIVE ExecuteUpsert(_, _, _, _)
\* the statement: the value sets in order
ExecuteUpsert(rs, values, nid, now) ==
    IF values = <<>> THEN [rows |-> rs, nextId |-> nid]
    ELSE LET one == InsertOrUpdate(rs, Head(values), nid, now)
         IN  ExecuteUpsert(one.rows, Tail(values), one.nextId, now)

\* result.identifiers of the InsertResult: one identifier for every value
\* set handed to values(), whether its row was inserted or overwritten
IdentifiersLength(values) == Len(values)

\* { inserted: insertedCount, updated: updatedCount }
UpsertCounts(values) ==
    LET insertedCount == IdentifiersLength(values)
        updatedCount == Len(values) - insertedCount
    IN  [inserted |-> insertedCount, updated |-> updatedCount]

----------------------------------------------------------------------------
(* What the verification endpoint may answer *)

VerifyKeys == {"verified", "confidence", "reason"}

VerifyScalars == {"true", "false", "\"true\"", "1", "0.9", "\"r\""}

VT_TRUE == <<"{", "verified", ":", "true", ",", "confidence", ":", "0.9", "}">>
VT_FALSE == <<"{", "verified", ":", "false", ",", "reason", ":", "\"r\"", "}">>

VerifyTexts ==
    {VT_TRUE, VT_FALSE,
     <<"{", "verified", ":", "\"true\"", "}">>,
     <<"{", "verified", ":", "1", "}">>,
     <<"{", "reason", ":", "\"r\"", "}">>,
     <<"p">> \o VT_TRUE \o <<"p">>,
     <<"{", "verified", ":", "}">>,
     <<"p">>, <<>>, ABSENT, NUM}

VerifyOutcomes ==
    [kind : {"429", "status", "throw", "badbody"}, text : {<<>>}]
      \cup [kind : {"content"}, text : VerifyTexts]

\* JSON.parse of an object text  { key : scalar , key : scalar ... }
IsVerifyObjectText(t) ==
    /\ Len(t) >= 2
    /\ t[1] = "{"
    /\ t[Len(t)] = "}"
    /\ LET inner == SubSeq(t, 2, Len(t) - 1)
       IN  \/ inner = <<>>
           \/ /\ Len(inner) % 4 = 3
              /\ \A i \in 1..Len(inner) :
                    CASE i % 4 = 1 -> inner[i] \in VerifyKeys
                      [] i % 4 = 2 -> inner[i] = ":"
                      [] i % 4 = 3 -> inner[i] \in VerifyScalars
                      [] OTHER -> inner[i] = ","

\* obj.verified of a parsed object text: its token, or "undefined"
VerifiedField(t) ==
    IF \E i \in 2..(Len(t) - 3) : t[i] = "verified" /\ t[i + 1] = ":"
    THEN LET i == CHOOSE i \in 2..(Len(t) - 3) : t[i] = "verified" /\ t[i + 1] = ":"
         IN  t[i + 2]
    ELSE "undefined"

\* the parsed object (its verified field), or null (found = FALSE)
extractJsonObjectFromResponse(responseText) ==
    IF responseText = <<>> THEN [found |-> FALSE, verified |-> "undefined"]
    ELSE LET objectStart == IndexOf(responseText, "{")
             objectEnd == LastIndexOf(responseText, "}")
         IN  IF objectStart = 0 \/ objectEnd = 0 \/ objectEnd <= objectStart
             THEN [found |-> FALSE, verified |-> "undefined"]
             ELSE LET jsonString == SubSeq(responseText, objectStart, objectEnd)
                  IN  IF IsVerifyObjectText(jsonString)
                      THEN [found |-> TRUE, verified |-> VerifiedField(jsonString)]
                      ELSE [found |-> FALSE, verified |-> "undefined"]

\* a variant of maxAttempts: one attempt fewer
maxAttemptsLess == 3 - 1

maxAttempts == 3

InitialBackoffMs == 1000

\* a mutant of NextBackoff: the backoff is not doubled
NextBackoffFlat(backoffMs) == backoffMs

\* a variant of NextBackoff: the backoff is tripled
NextBackoffTriple(backoffMs) == backoffMs * 3

\* backoffMs *= 2
NextBackoff(backoffMs) == backoffMs * 2

\* a variant of VerifyStep: the verified field is tested for truthiness,
\* not for being the boolean true
VerifyStepTruthy(out, attempt) ==
    LET content == Coalesce(out.text, <<>>)
        thrown == \/ out.kind \in {"throw", "badbody"}
                  \/ out.kind = "content" /\ content = NUM
    IN  IF out.kind = "429"
        THEN [retry |-> attempt < maxAttempts, value |-> FALSE]
        ELSE IF out.kind = "status"
        THEN [retry |-> FALSE, value |-> FALSE]
        ELSE IF thrown
        THEN [retry |-> attempt < maxAttempts, value |-> FALSE]
        ELSE LET verificationResult == extractJsonObjectFromResponse(content)
             IN  IF ~verificationResult.found
                 THEN [retry |-> FALSE, value |-> FALSE]
                 ELSE [retry |-> FALSE,
                       value |-> verificationResult.verified \notin {"undefined", "false"}]

\* a variant of VerifyStep: an error status is retried like a 429
VerifyStepRetryStatus(out, attempt) ==
    LET content == Coalesce(out.text, <<>>)
        thrown == \/ out.kind \in {"throw", "badbody"}
                  \/ out.kind = "content" /\ content = NUM
    IN  IF out.kind \in {"429", "status"}
        THEN [retry |-> attempt < maxAttempts, value |-> FALSE]
        ELSE IF thrown
        THEN [retry |-> attempt < maxAttempts, value |-> FALSE]
        ELSE LET verificationResult == extractJsonObjectFromResponse(content)
             IN  IF ~verificationResult.found
                 THEN [retry |-> FALSE, value |-> FALSE]
                 ELSE IF verificationResult.verified \notin {"true", "false"}
                 THEN [retry |-> FALSE, value |-> FALSE]
                 ELSE [retry |-> FALSE, value |-> verificationResult.verified = "true"]

\* a variant of VerifyStep: a decided answer does not end the loop while
\* attempts are left
VerifyStepNoEarlyReturn(out, attempt) ==
    LET content == Coalesce(out.text, <<>>)
        thrown == \/ out.kind \in {"throw", "badbody"}
                  \/ out.kind = "content" /\ content = NUM
    IN  IF out.kind = "429"
        THEN [retry |-> attempt < maxAttempts, value |-> FALSE]
        ELSE IF out.kind = "status"
        THEN [retry |-> FALSE, value |-> FALSE]
        ELSE IF thrown
        THEN [retry |-> attempt < maxAttempts, value |-> FALSE]
        ELSE LET verificationResult == extractJsonObjectFromResponse(content)
             IN  IF ~verificationResult.found
                 THEN [retry |-> FALSE, value |-> FALSE]
                 ELSE IF verificationResult.verified \notin {"true", "false"}
                 THEN [retry |-> FALSE, value |-> FALSE]
                 ELSE [retry |-> attempt < maxAttempts,
                       value |-> verificationResult.verified = "true"]

\* a variant of VerifyStep: a content without a JSON object is retried
VerifyStepRetryUnparsable(out, attempt) ==
    LET content == Coalesce(out.text, <<>>)
        thrown == \/ out.kind \in {"throw", "badbody"}
                  \/ out.kind = "content" /\ content = NUM
    IN  IF out.kind = "429"
        THEN [retry |-> attempt < maxAttempts, value |-> FALSE]
        ELSE IF out.kind = "status"
        THEN [retry |-> FALSE, value |-> FALSE]
        ELSE IF thrown
        THEN [retry |-> attempt < maxAttempts, value |-> FALSE]
        ELSE LET verificationResult == extractJsonObjectFromResponse(content)
             IN  IF ~verificationResult.found
                 THEN [retry |-> attempt < maxAttempts, value |-> FALSE]
                 ELSE IF verificationResult.verified \notin {"true", "false"}
                 THEN [retry |-> FALSE, value |-> FALSE]
                 ELSE [retry |-> FALSE, value |-> verificationResult.verified = "true"]

\* one pass of the attempt loop of verifyEventWithQiniu on the answer out:
\* sleep and retry, or return value
VerifyStep(out, attempt) ==
    LET content == Coalesce(out.text, <<>>)
        thrown == \/ out.kind \in {"throw", "badbody"}
                  \/ out.kind = "content" /\ content = NUM
    IN  IF out.kind = "429"
        THEN [retry |-> attempt < maxAttempts, value |-> FALSE]
        ELSE IF out.kind = "status"
        THEN [retry |-> FALSE, value |-> FALSE]
        ELSE IF thrown
        THEN [retry |-> attempt < maxAttempts, value |-> FALSE]
        ELSE LET verificationResult == extractJsonObjectFromResponse(content)
             IN  IF ~verificationResult.found
                 THEN [retry |-> FALSE, value |-> FALSE]
                 ELSE IF verificationResult.verified \notin {"true", "false"}
                 THEN [retry |-> FALSE, value |-> FALSE]
                 ELSE [retry |-> FALSE, value |-> verificationResult.verified = "true"]

----------------------------------------------------------------------------
(* Ingestion runs: the sync trigger and the scheduled run *)

MaxRuns == 2

daysToFetch == 2

DefaultTargetOffset == 7

DefaultCity == <<"H">>

Cities == {<<"S">>}

RunIds == {"manual", "cron"}

SyncHandlers == {"synchronizeEventsFromAI", "sync"}

NoResult ==
    [status |-> "none", targetDate |-> 0, hasMessage |-> FALSE, hasCounts |-> FALSE,
     inserted |-> 0, updated |-> 0]

NoCall == [done |-> FALSE, seen |-> <<>>, content |-> <<>>, requests |-> 0,
           waits |-> <<>>, value |-> FALSE]

NoFetch == [done |-> FALSE, kind |-> "none", items |-> <<>>, asked |-> 0,
            targetDate |-> 0, threw |-> FALSE]

IdleRun ==
    [pc |-> "idle", handler |-> "none", city |-> <<>>, i |-> 0, targetDate |-> 0,
     fetchKind |-> "none", cands |-> <<>>, idx |-> 0, verifiedEvents |-> <<>>,
     aggregatedEvents |-> <<>>, attempt |-> 0, backoffMs |-> 0, waits |-> <<>>,
     seen |-> <<>>, batch |-> <<>>, result |-> NoResult, askedPrimary |-> FALSE,
     askedVerify |-> FALSE, lastCall |-> NoCall, lastFetch |-> NoFetch,
     approved |-> {}, overlap |-> FALSE, stmtFailed |-> FALSE]

\* a variant of Normalize: the default city is stored, not the run's
NormalizeDefaultCity(event, city) ==
    [title |-> event.title, type |-> event.type, city |-> DefaultCity,
     venue |-> Coalesce(event.venue, NULL), address |-> Coalesce(event.address, NULL),
     start_date |-> event.start_date, end_date |-> Coalesce(event.end_date, NULL),
     source_url |-> Coalesce(event.source_url, NULL),
     price_range |-> Coalesce(event.price_range, NULL),
     organizer |-> Coalesce(event.organizer, NULL)]

\* the controller's and formatEventsForDatabase's mapping of one event
Normalize(event, city) ==
    [title |-> event.title, type |-> event.type, city |-> city,
     venue |-> Coalesce(event.venue, NULL), address |-> Coalesce(event.address, NULL),
     start_date |-> event.start_date, end_date |-> Coalesce(event.end_date, NULL),
     source_url |-> Coalesce(event.source_url, NULL),
     price_range |-> Coalesce(event.price_range, NULL),
     organizer |-> Coalesce(event.organizer, NULL)]

NormalizeAll(items, city) == [k \in 1..Len(items) |-> Normalize(items[k], city)]

\* getTargetCityForSync: envCity || defaultCity
getTargetCityForSync == IF config.cronCity \in {ABSENT, <<>>} THEN DefaultCity ELSE config.cronCity

\* a mutant of CredentialsPresent: only the primary credential is checked
PrimaryCredentialOnly == config.primaryKey

\* the two guards at the head of fetchEventsFromAI
CredentialsPresent == config.primaryKey /\ config.qiniuKey

\* a mutant of FetchCatch: the error is thrown on to the caller
FetchRethrow(queryDate) == [items |-> <<>>, targetDate |-> queryDate, threw |-> TRUE]

\* the catch of fetchEventsFromAI
FetchCatch(queryDate) == [items |-> <<>>, targetDate |-> queryDate, threw |-> FALSE]

\* a mutant of UpsertCatch: the storage error is swallowed and zero counts
\* are returned
UpsertSwallow == [threw |-> FALSE, inserted |-> 0, updated |-> 0]

\* the catch of upsertManyEvents: log, then throw new Error(...)
UpsertCatch == [threw |-> TRUE, inserted |-> 0, updated |-> 0]

\* a mutant of KeepVerified: the candidate is kept whatever the decision
KeepVerifiedAlways(verifiedEvents, event, isVerified) == Append(verifiedEvents, event)

\* if (isVerified) verifiedEvents.push(event)
KeepVerified(verifiedEvents, event, isVerified) ==
    IF isVerified THEN Append(verifiedEvents, event) ELSE verifiedEvents

\* what the handler does once upsertManyEvents has returned or thrown
AfterUpsert(rr, res) ==
    IF rr.handler = "synchronizeEventsFromAI"
    THEN [rr EXCEPT !.pc = "done",
             !.result = IF res.threw
                        THEN [NoResult EXCEPT !.status = "error"]
                        ELSE [status |-> "ok", targetDate |-> rr.targetDate,
                              hasMessage |-> TRUE, hasCounts |-> TRUE,
                              inserted |-> res.inserted, updated |-> res.updated]]
    ELSE IF rr.handler = "sync"
    THEN [rr EXCEPT !.pc = "done",
             !.result = IF res.threw
                        THEN [NoResult EXCEPT !.status = "error"]
                        ELSE [status |-> "ok", targetDate |-> rr.targetDate,
                              hasMessage |-> FALSE, hasCounts |-> TRUE,
                              inserted |-> res.inserted, updated |-> res.updated]]
    ELSE [rr EXCEPT !.pc = "done",
             !.result = IF res.threw
                        THEN [NoResult EXCEPT !.status = "failed"]
                        ELSE [status |-> "ok", targetDate |-> 0,
                              hasMessage |-> FALSE, hasCounts |-> TRUE,
                              inserted |-> res.inserted, updated |-> res.updated]]

\* a variant of CallUpsert: the empty list is handed to the store as well
CallUpsertUnguarded(rr, eventInputs) ==
    [rr EXCEPT !.pc = "upsert",
        !.batch = [k \in 1..Len(eventInputs) |-> WithHash(eventInputs[k])]]

\* upsertManyEvents up to the statement: an empty list returns zero counts
\* at once, anything else is handed to the store
CallUpsert(rr, eventInputs) ==
    IF Len(eventInputs) = 0
    THEN AfterUpsert(rr, [threw |-> FALSE, inserted |-> 0, updated |-> 0])
    ELSE [rr EXCEPT !.pc = "upsert",
             !.batch = [k \in 1..Len(eventInputs) |-> WithHash(eventInputs[k])]]

RECURSIVE BeginFetch(_, _)
RECURSIVE AfterFetch(_, _)
RECURSIVE BeginVerify(_)
RECURSIVE AfterDecision(_, _, _)

\* fetchEventsFromAI up to the primary request
BeginFetch(rr, queryDate) ==
    IF ~CredentialsPresent
    THEN AfterFetch([rr EXCEPT !.targetDate = queryDate, !.fetchKind = "nokey",
                               !.askedPrimary = FALSE, !.askedVerify = FALSE],
                    [items |-> <<>>, targetDate |-> queryDate, threw |-> FALSE])
    ELSE [rr EXCEPT !.pc = "primary", !.targetDate = queryDate, !.fetchKind = "none",
             !.cands = <<>>, !.idx = 0, !.verifiedEvents = <<>>,
             !.askedPrimary = TRUE, !.askedVerify = FALSE]

\* a variant of AfterFetch: the scheduled run gives up at the first date
\* that yields no event
AfterFetchStopOnEmpty(rr, fetched) ==
    LET r1 == [rr EXCEPT !.lastFetch =
                    [done |-> TRUE, kind |-> rr.fetchKind, items |-> fetched.items,
                     asked |-> rr.targetDate, targetDate |-> fetched.targetDate,
                     threw |-> fetched.threw],
                  !.cands = <<>>, !.idx = 0, !.verifiedEvents = <<>>]
    IN  IF r1.handler = "synchronizeEventsFromAI"
        THEN IF fetched.threw
             THEN [r1 EXCEPT !.pc = "done", !.result = [NoResult EXCEPT !.status = "error"]]
             ELSE IF Len(fetched.items) = 0
             THEN [r1 EXCEPT !.pc = "done",
                      !.result = [status |-> "ok", targetDate |-> fetched.targetDate,
                                  hasMessage |-> TRUE, hasCounts |-> TRUE,
                                  inserted |-> 0, updated |-> 0]]
             ELSE CallUpsert(r1, NormalizeAll(fetched.items, r1.city))
        ELSE IF r1.handler = "sync"
        THEN IF fetched.threw
             THEN [r1 EXCEPT !.pc = "done", !.result = [NoResult EXCEPT !.status = "error"]]
             ELSE CallUpsert(r1, NormalizeAll(fetched.items, r1.city))
        ELSE IF fetched.threw \/ Len(fetched.items) = 0
             THEN [r1 EXCEPT !.pc = "done", !.result = [NoResult EXCEPT !.status = "failed"]]
             ELSE LET r2 == [r1 EXCEPT
                                !.aggregatedEvents =
                                    IF Len(fetched.items) > 0
                                    THEN @ \o NormalizeAll(fetched.items, r1.city)
                                    ELSE @,
                                !.i = @ + 1]
                  IN  IF r2.i < daysToFetch
                      THEN BeginFetch(r2, r2.i)
                      ELSE IF Len(r2.aggregatedEvents) = 0
                      THEN [r2 EXCEPT !.pc = "done",
                               !.result = [NoResult EXCEPT !.status = "empty"]]
                      ELSE CallUpsert(r2, r2.aggregatedEvents)

\* the caller's code after  await fetchEventsFromAI(...)
AfterFetch(rr, fetched) ==
    LET r1 == [rr EXCEPT !.lastFetch =
                    [done |-> TRUE, kind |-> rr.fetchKind, items |-> fetched.items,
                     asked |-> rr.targetDate, targetDate |-> fetched.targetDate,
                     threw |-> fetched.threw],
                  !.cands = <<>>, !.idx = 0, !.verifiedEvents = <<>>]
    IN  IF r1.handler = "synchronizeEventsFromAI"
        THEN IF fetched.threw
             THEN [r1 EXCEPT !.pc = "done", !.result = [NoResult EXCEPT !.status = "error"]]
             ELSE IF Len(fetched.items) = 0
             THEN [r1 EXCEPT !.pc = "done",
                      !.result = [status |-> "ok", targetDate |-> fetched.targetDate,
                                  hasMessage |-> TRUE, hasCounts |-> TRUE,
                                  inserted |-> 0, updated |-> 0]]
             ELSE CallUpsert(r1, NormalizeAll(fetched.items, r1.city))
        ELSE IF r1.handler = "sync"
        THEN IF fetched.threw
             THEN [r1 EXCEPT !.pc = "done", !.result = [NoResult EXCEPT !.status = "error"]]
             ELSE CallUpsert(r1, NormalizeAll(fetched.items, r1.city))
        ELSE IF fetched.threw
             THEN [r1 EXCEPT !.pc = "done", !.result = [NoResult EXCEPT !.status = "failed"]]
             ELSE LET r2 == [r1 EXCEPT
                                !.aggregatedEvents =
                                    IF Len(fetched.items) > 0
                                    THEN @ \o NormalizeAll(fetched.items, r1.city)
                                    ELSE @,
                                !.i = @ + 1]
                  IN  IF r2.i < daysToFetch
                      THEN BeginFetch(r2, r2.i)
                      ELSE IF Len(r2.aggregatedEvents) = 0
                      THEN [r2 EXCEPT !.pc = "done",
                               !.result = [NoResult EXCEPT !.status = "empty"]]
                      ELSE CallUpsert(r2, r2.aggregatedEvents)

\* verifyEventWithQiniu up to its first request, for candidate rr.idx
BeginVerify(rr) ==
    IF ~config.qiniuKey
    THEN AfterDecision(rr, FALSE,
                       [done |-> TRUE, seen |-> <<>>, content |-> <<>>, requests |-> 0,
                        waits |-> <<>>, value |-> FALSE])
    ELSE [rr EXCEPT !.pc = "verify", !.attempt = 1, !.backoffMs = InitialBackoffMs,
             !.waits = <<>>, !.seen = <<>>, !.askedVerify = TRUE]

\* a variant of AfterDecision: the candidate after the decided one is
\* passed over
AfterDecisionSkipping(rr, isVerified, call) ==
    LET event == rr.cands[rr.idx]
        r1 == [rr EXCEPT !.verifiedEvents = KeepVerified(@, event, isVerified),
                  !.approved = IF isVerified THEN @ \cup {event} ELSE @,
                  !.lastCall = call,
                  !.attempt = 0, !.backoffMs = 0, !.waits = <<>>, !.seen = <<>>,
                  !.idx = @ + 2]
    IN  IF r1.idx <= Len(r1.cands)
        THEN BeginVerify(r1)
        ELSE AfterFetch(r1, [items |-> r1.verifiedEvents, targetDate |-> r1.targetDate,
                             threw |-> FALSE])

\* parseAndValidateEvents after  await verifyEventWithQiniu(event, city)
AfterDecision(rr, isVerified, call) ==
    LET event == rr.cands[rr.idx]
        r1 == [rr EXCEPT !.verifiedEvents = KeepVerified(@, event, isVerified),
                  !.approved = IF isVerified THEN @ \cup {event} ELSE @,
                  !.lastCall = call,
                  !.attempt = 0, !.backoffMs = 0, !.waits = <<>>, !.seen = <<>>,
                  !.idx = @ + 1]
    IN  IF r1.idx <= Len(r1.cands)
        THEN BeginVerify(r1)
        ELSE AfterFetch(r1, [items |-> r1.verifiedEvents, targetDate |-> r1.targetDate,
                             threw |-> FALSE])

----------------------------------------------------------------------------
(* GET /events: the list query *)

\* dates the clients ask about, around the catalogue's D1 and D2
D0 == <<"2", "0", "2", "5", "-", "0", "2", "-", "2", "7">>
Dm == <<"2", "0", "2", "5", "-", "0", "3", "-", "0", "3">>
D3 == <<"2", "0", "2", "5", "-", "0", "3", "-", "0", "9">>

\* a page or pageSize parameter that was not sent (the DTO admits none
\* below 1)
Unset == 0

MaxPage == 2

MaxPageSize == 2

DefaultPage == 1

DefaultPageSize == 10

\* if (queryOptions.x): undefined and '' are falsy
Truthy(v) == v \notin {ABSENT, NULL, <<>>}

DigitValue(c) ==
    CASE c = "0" -> 0 [] c = "1" -> 1 [] c = "2" -> 2 [] c = "3" -> 3 [] c = "4" -> 4
      [] c = "5" -> 5 [] c = "6" -> 6 [] c = "7" -> 7 [] c = "8" -> 8 [] c = "9" -> 9
      [] OTHER -> 0 - 1

RECURSIVE DateLeq(_, _)
\* a <= b on two DATE values written YYYY-MM-DD
DateLeq(a, b) ==
    IF a = <<>> \/ b = <<>> THEN a = <<>>
    ELSE IF Head(a) = Head(b) THEN DateLeq(Tail(a), Tail(b))
    ELSE DigitValue(Head(a)) < DigitValue(Head(b))

\* column LIKE '%keyword%': NULL matches nothing
Like(column, keyword) ==
    /\ column # NULL
    /\ \E i \in 1..(Len(column) - Len(keyword) + 1) :
          SubSeq(column, i, i + Len(keyword) - 1) = keyword

\* one condition of the WHERE text and the connective written before it
And(value) == [op |-> "AND", value |-> value]

Or(value) == [op |-> "OR", value |-> value]

\* the WHERE text as SQL reads it: andWhere pastes each condition after
\* " AND " without brackets of its own, and AND binds tighter than OR, so
\* the text is a disjunction of the AND-runs between its top-level ORs
WhereHolds(terms) ==
    \/ terms = <<>>
    \/ \E i \in 1..Len(terms) : \E j \in i..Len(terms) :
          /\ i = 1 \/ terms[i].op = "OR"
          /\ j = Len(terms) \/ terms[j + 1].op = "OR"
          /\ \A k \in (i + 1)..j : terms[k].op = "AND"
          /\ \A k \in i..j : terms[k].value

\* the type, city and keyword conditions, shared by both services
FilterTerms(event, q) ==
    (IF Truthy(q.type) THEN <<And(event.type = q.type)>> ELSE <<>>)
      \o (IF Truthy(q.city) THEN <<And(event.city = q.city)>> ELSE <<>>)
      \o (IF Truthy(q.q)
          THEN <<And(\/ Like(event.title, q.q)
                     \/ Like(event.venue, q.q)
                     \/ Like(event.address, q.q))>>
          ELSE <<>>)

\* (end_date IS NULL AND start_date >= :fromDate)
StartsOnOrAfter(event, fromDate) ==
    event.end_date = NULL /\ DateLeq(fromDate, event.start_date)

\* (end_date IS NOT NULL AND end_date >= :fromDate)
EndsOnOrAfter(event, fromDate) ==
    event.end_date # NULL /\ DateLeq(fromDate, event.end_date)

\* applyDateRangeFilter: the condition it adds, as written
applyDateRangeFilter(event, options) ==
    IF Truthy(options.from) /\ Truthy(options.to)
    THEN <<And(DateLeq(event.start_date, options.to)),
           And(StartsOnOrAfter(event, options.from) \/ EndsOnOrAfter(event, options.from))>>
    ELSE IF Truthy(options.from)
    THEN <<And(StartsOnOrAfter(event, options.from)),
           Or(EndsOnOrAfter(event, options.from))>>
    ELSE IF Truthy(options.to)
    THEN <<And(DateLeq(event.start_date, options.to))>>
    ELSE <<>>

\* the from and to conditions of EventsService.list in events.service.ts
listDateTerms(event, q) ==
    (IF Truthy(q.from) THEN <<And(DateLeq(q.from, event.start_date))>> ELSE <<>>)
      \o (IF Truthy(q.to)
          THEN <<And(event.end_date = NULL /\ DateLeq(event.start_date, q.to)),
                 Or(event.end_date # NULL /\ DateLeq(event.end_date, q.to))>>
          ELSE <<>>)

ListHandlers == {"getEventsList", "list"}

\* the rows the query of the handler selects
Matching(handler, rs, q) ==
    {event \in rs :
        WhereHolds(FilterTerms(event, q)
                     \o (IF handler = "getEventsList"
                         THEN applyDateRangeFilter(event, q)
                         ELSE listDateTerms(event, q)))}

RECURSIVE OrdersByStartDate(_)
\* ORDER BY start_date ASC: every order the store may return, rows of one
\* start_date in any order
OrdersByStartDate(rs) ==
    IF rs = {} THEN {<<>>}
    ELSE LET first == {m \in rs : \A o \in rs : DateLeq(m.start_date, o.start_date)}
         IN  UNION {{<<m>> \o rest : rest \in OrdersByStartDate(rs \ {m})} : m \in first}

\* a variant of SkipCount that skips whole pages up to and including the
\* current one
SkipCountOffByOne(currentPage, itemsPerPage) == currentPage * itemsPerPage

\* skipCount = (currentPage - 1) * itemsPerPage
SkipCount(currentPage, itemsPerPage) == (currentPage - 1) * itemsPerPage

\* skip(skipCount).take(itemsPerPage) on the ordered rows
SkipTake(ordered, skipCount, itemsPerPage) ==
    SubSeq(ordered, skipCount + 1,
           IF skipCount + itemsPerPage < Len(ordered)
           THEN skipCount + itemsPerPage ELSE Len(ordered))

NoList == [handler |-> "none", query |-> <<>>, items |-> <<>>, total |-> 0,
           page |-> 0, pageSize |-> 0]

\* the query runs against the table and the page is on its way back; where
\* requests come one at a time, none is served while a run or an earlier
\* response is still in flight
Respond(handler, q, searchCriteria) ==
    LET currentPage == IF q.page = Unset THEN DefaultPage ELSE q.page
        itemsPerPage == IF q.pageSize = Unset THEN DefaultPageSize ELSE q.pageSize
    IN  /\ config.concurrent
              \/ (listed = NoList /\ \A r \in RunIds : run[r].pc \in {"idle", "done"})
        /\ \E ordered \in OrdersByStartDate(Matching(handler, rows, searchCriteria)) :
              listed' = [handler |-> handler, query |-> searchCriteria,
                         items |-> SkipTake(ordered, SkipCount(currentPage, itemsPerPage),
                                            itemsPerPage),
                         total |-> Len(ordered),
                         page |-> currentPage, pageSize |-> itemsPerPage]
        /\ UNCHANGED <<config, rows, nextId, clock, run, lastStmt, started, validated, extracted, hashed>>

\* the client has the page
ListDelivered ==
    /\ listed # NoList
    /\ listed' = NoList
    /\ UNCHANGED <<config, rows, nextId, clock, run, lastStmt, started, validated, extracted, hashed>>

\* GET /events of events.controller.ts: the city defaults to DefaultCity
getEventsList(queryParams) ==
    Respond("getEventsList", queryParams,
            [queryParams EXCEPT !.city = Coalesce(@, DefaultCity)])

\* GET /events of the controller whose service is events.service.ts
list(query) == Respond("list", query, query)

----------------------------------------------------------------------------
(* The schema validator on its own: one record, and the loop over an array *)

MaxLen == 3

\* the longest start_date offered to the regex: one character too many
TooLong == D1 \o <<"0">>

\* raw records of every shape a field can take
RecordSpace ==
    [title : {<<"A">>, <<" ">>, <<>>, NUM, ABSENT, NULL},
     type : {EXPO, CONCERT, <<"x">>, ABSENT, NULL},
     venue : {ABSENT, <<"V">>, NUM},
     address : {NULL},
     start_date : {D1, <<"2", "0", "2", "5">>, TooLong,
                   <<"2", "0", "2", "5", "/", "0", "3", "/", "0", "1">>,
                   <<"2", "0", "2", "5", "-", "0", "3", "-", "0", "x">>,
                   ABSENT, NULL, NUM},
     end_date : {ABSENT, NULL, D2, <<"0", "5">>, NUM},
     source_url : {ABSENT, NULL, <<"h", ":", "x">>, <<"x">>},
     price_range : {ABSENT},
     organizer : {NULL},
     city : {ABSENT}]

\* arrays of at most MaxLen raw records of the catalogue
RECURSIVE TokenArrays(_)
TokenArrays(n) ==
    IF n = 0 THEN {<<>>}
    ELSE TokenArrays(n - 1)
           \cup {Append(a, tok) : a \in {b \in TokenArrays(n - 1) : Len(b) = n - 1},
                                  tok \in RawNames}

NoValidation ==
    [item |-> RawOf("rA"), items |-> <<>>, phase |-> "none", success |-> FALSE,
     candidates |-> <<>>]

\* EventSchema.safeParse(item) on the record at hand
safeParse ==
    /\ validated.phase = "record"
    /\ validated' = [validated EXCEPT
                        !.phase = "parsed",
                        !.success = SchemaAccepts(validated.item),
                        !.candidates = IF SchemaAccepts(validated.item)
                                       THEN <<SchemaData(validated.item)>> ELSE <<>>]
    /\ UNCHANGED <<config, rows, nextId, clock, run, lastStmt, started, listed, extracted, hashed>>

\* the loop of parseAndValidateEvents over the array at hand
validateItems ==
    /\ validated.phase = "array"
    /\ validated' = [validated EXCEPT !.phase = "filtered",
                                      !.candidates = SchemaFilter(validated.items)]
    /\ UNCHANGED <<config, rows, nextId, clock, run, lastStmt, started, listed, extracted, hashed>>

----------------------------------------------------------------------------
(* The response extractor on its own: a text, parsed whole or sliced *)

MaxProse == 2

\* what surrounds the array in the answer: letters, blanks, stray brackets
ProseSymbols == {"p", " ", "[", "]"}

\* prose of at most n symbols
RECURSIVE Prose(_)
Prose(n) ==
    IF n = 0 THEN {<<>>}
    ELSE Prose(n - 1)
           \cup {Append(t, c) : t \in {u \in Prose(n - 1) : Len(u) = n - 1},
                                c \in ProseSymbols}

\* the text is an array nested in arrays (as many "[" before as "]" after
\* and nothing else): a JSON value of its own, not prose around an array
IsNesting(before, after) ==
    /\ StripWs(before) # <<>>
    /\ Len(StripWs(before)) = Len(StripWs(after))
    /\ \A i \in 1..Len(StripWs(before)) :
          StripWs(before)[i] = "[" /\ StripWs(after)[i] = "]"

\* an answer text: the array items stringified between before and after,
\* or (wrapped = FALSE) any other text
ResponseTexts ==
    {[phase |-> "text", wrapped |-> TRUE, before |-> w[1], array |-> w[2],
      after |-> w[3], text |-> w[1] \o Stringify(w[2]) \o w[3], found |-> FALSE,
      items |-> <<>>] :
        w \in {x \in Prose(MaxProse) \X RawArrays \X Prose(MaxProse) :
                  ~IsNesting(x[1], x[3])}}
      \cup {[phase |-> "text", wrapped |-> FALSE, before |-> <<>>, array |-> <<>>,
             after |-> <<>>, text |-> t, found |-> FALSE, items |-> <<>>] :
               t \in {u \in PrimaryTexts : IsString(u)}}

NoExtraction ==
    [phase |-> "none", wrapped |-> FALSE, before |-> <<>>, array |-> <<>>,
     after |-> <<>>, text |-> <<>>, found |-> FALSE, items |-> <<>>]

\* this.extractJsonArrayFromResponse(text) on the text at hand
extractArray ==
    /\ extracted.phase = "text"
    /\ extracted' = [extracted EXCEPT
                        !.phase = "extracted",
                        !.found = extractJsonArrayFromResponse(extracted.text).found,
                        !.items = extractJsonArrayFromResponse(extracted.text).items]
    /\ UNCHANGED <<config, rows, nextId, clock, run, lastStmt, started, listed,
                   validated, hashed>>

\* parseAndValidateEvents on the text at hand, up to the array check: the
\* items handed to the schema loop
parseResponse ==
    /\ extracted.phase = "text"
    /\ extracted' = [extracted EXCEPT
                        !.phase = "parsed",
                        !.found = ~TrimIsEmpty(extracted.text),
                        !.items = IF TrimIsEmpty(extracted.text) THEN <<>>
                                  ELSE RawEventData(extracted.text)]
    /\ UNCHANGED <<config, rows, nextId, clock, run, lastStmt, started, listed,
                   validated, hashed>>

----------------------------------------------------------------------------
(* The dedup hash on its own: two events handed to upsertManyEvents *)

\* identity fields with and without the separator in them
IdentitySpace ==
    [title : {<<"A">>, <<"A", "|">> \o D1 \o <<"|", "V">>},
     start_date : {D1},
     venue : {NULL, <<>>, <<"V">>, <<"V", "|">> \o D1 \o <<"|", "V">>,
              <<"V", "|", "W">>},
     city : {<<"S">>, <<"W", "|", "S">>}]

\* an event input of the given identity
EventOf(identity) ==
    [title |-> identity.title, type |-> EXPO, city |-> identity.city,
     venue |-> identity.venue, address |-> NULL, start_date |-> identity.start_date,
     end_date |-> NULL, source_url |-> NULL, price_range |-> NULL,
     organizer |-> NULL]

NoHashing == [phase |-> "none", first |-> EventOf(CHOOSE i \in IdentitySpace : TRUE),
              second |-> EventOf(CHOOSE i \in IdentitySpace : TRUE),
              hashes |-> <<>>, stored |-> {}]

\* upsertManyEvents([first, second]) on an empty table
upsertPair ==
    /\ hashed.phase = "inputs"
    /\ LET eventsWithHash == <<WithHash(hashed.first), WithHash(hashed.second)>>
       IN  hashed' = [hashed EXCEPT
                         !.phase = "stored",
                         !.hashes = <<eventsWithHash[1].hash, eventsWithHash[2].hash>>,
                         !.stored = ExecuteUpsert({}, eventsWithHash, 1, 1).rows]
    /\ UNCHANGED <<config, rows, nextId, clock, run, lastStmt, started, listed,
                   validated, extracted>>

----------------------------------------------------------------------------
(* Actions *)

NoStmt == [by |-> "none", values |-> <<>>, before |-> {}, at |-> 0,
           inserted |-> 0, updated |-> 0]

Active(rr) == rr.pc \notin {"idle", "done"}

Other(r) == CHOOSE o \in RunIds : o # r

\* a run starts: the other run, if in flight, overlaps it; what an earlier,
\* finished run reported is no longer kept
Launch(r, handler, city, queryDate) ==
    LET o == Other(r)
        fresh == [IdleRun EXCEPT !.handler = handler, !.city = city,
                                 !.overlap = Active(run[o])]
    IN  /\ started < MaxRuns
        /\ ~Active(run[r])
        /\ config.concurrent \/ ~Active(run[o])
        /\ run' = [run EXCEPT ![r] = BeginFetch(fresh, queryDate),
                              ![o] = IF Active(run[o])
                                     THEN [@ EXCEPT !.overlap = TRUE]
                                     ELSE IdleRun]
        /\ started' = started + 1
        /\ lastStmt' = NoStmt
        /\ UNCHANGED <<config, rows, nextId, clock, validated, extracted, hashed>>
        /\ listed' = NoList

\* POST /events/sync?city=...  (either controller)
StartSync(city, handler) == Launch("manual", handler, city, DefaultTargetOffset)

\* the cron fires performDailyEventSync
StartCron == Launch("cron", "performDailyEventSync", getTargetCityForSync, 0)

\* how the primary answer ends the fetch or what it leaves to validate
ClassifyPrimary(out) ==
    LET content == Coalesce(out.text, <<>>)
    IN  IF out.kind # "content" THEN out.kind
        ELSE IF content = NUM THEN "nonstring"
        ELSE IF TrimIsEmpty(content) THEN "empty"
        ELSE IF JSONParse(content).ok
        THEN (IF JSONParse(content).isArray THEN "array" ELSE "nonarray")
        ELSE IF extractJsonArrayFromResponse(content).found THEN "array"
        ELSE "unparseable"

\* the primary endpoint answers: callDeepSeekAPI returns or throws, then
\* parseAndValidateEvents runs up to the first verification request
PrimaryResponse(r, out) ==
    LET rr == [run[r] EXCEPT !.fetchKind = ClassifyPrimary(out),
                             !.lastCall = NoCall, !.lastFetch = NoFetch]
        content == Coalesce(out.text, <<>>)
    IN  /\ run[r].pc = "primary"
        /\ run' = [run EXCEPT ![r] =
                IF out.kind # "content" \/ content = NUM
                THEN AfterFetch(rr, FetchCatch(rr.targetDate))
                ELSE IF TrimIsEmpty(content)
                THEN AfterFetch(rr, [items |-> <<>>, targetDate |-> rr.targetDate,
                                     threw |-> FALSE])
                ELSE LET schemaValidatedEvents == SchemaFilter(RawEventData(content))
                     IN  IF Len(schemaValidatedEvents) = 0
                         THEN AfterFetch(rr, [items |-> <<>>, targetDate |-> rr.targetDate,
                                              threw |-> FALSE])
                         ELSE BeginVerify([rr EXCEPT !.cands = schemaValidatedEvents,
                                                     !.idx = 1])]
        /\ UNCHANGED <<config, rows, nextId, clock, lastStmt, started, validated, extracted, hashed>>
        /\ listed' = NoList

\* what the attempt saw: the kind of the answer, a content that is not a
\* string told apart from a content that is
SeenKind(out) ==
    IF out.kind = "content" /\ Coalesce(out.text, <<>>) = NUM THEN "nonstring" ELSE out.kind

\* the verification endpoint answers attempt rr.attempt
VerifyResponse(r, out) ==
    LET rr == run[r]
        step == VerifyStep(out, rr.attempt)
        seen == Append(rr.seen, SeenKind(out))
    IN  /\ rr.pc = "verify"
        /\ run' = [run EXCEPT ![r] =
                IF step.retry
                THEN [rr EXCEPT !.pc = "sleep", !.seen = seen,
                         !.waits = Append(@, rr.backoffMs), !.lastCall = NoCall]
                ELSE AfterDecision(rr, step.value,
                                   [done |-> TRUE, seen |-> seen,
                                    content |-> IF out.kind = "content"
                                                THEN Coalesce(out.text, <<>>) ELSE <<>>,
                                    requests |-> rr.attempt, waits |-> rr.waits,
                                    value |-> step.value])]
        /\ UNCHANGED <<config, rows, nextId, clock, lastStmt, started, validated, extracted, hashed>>
        /\ listed' = NoList

\* the backoff timer fires: backoffMs *= 2; continue; the next request
SleepDone(r) ==
    LET rr == run[r]
    IN  /\ rr.pc = "sleep"
        /\ run' = [run EXCEPT ![r] =
                [rr EXCEPT !.pc = "verify", !.backoffMs = NextBackoff(@),
                    !.attempt = @ + 1, !.askedVerify = TRUE, !.lastCall = NoCall]]
        /\ UNCHANGED <<config, rows, nextId, clock, lastStmt, started, validated, extracted, hashed>>
        /\ listed' = NoList

\* the store executes the statement of run r
UpsertExecute(r) ==
    LET rr == [run[r] EXCEPT !.lastCall = NoCall, !.lastFetch = NoFetch]
        done == ExecuteUpsert(rows, rr.batch, nextId, clock)
        counts == UpsertCounts(rr.batch)
    IN  /\ rr.pc = "upsert"
        /\ rows' = done.rows
        /\ nextId' = done.nextId
        /\ clock' = clock + 1
        /\ lastStmt' = [by |-> r, values |-> rr.batch, before |-> rows, at |-> clock,
                        inserted |-> counts.inserted, updated |-> counts.updated]
        /\ run' = [run EXCEPT ![r] =
                AfterUpsert(rr, [threw |-> FALSE, inserted |-> counts.inserted,
                                 updated |-> counts.updated])]
        /\ UNCHANGED <<config, started, validated, extracted, hashed>>
        /\ listed' = NoList

\* the statement of run r fails in the store: nothing is written
UpsertFail(r) ==
    /\ run[r].pc = "upsert"
    /\ run' = [run EXCEPT ![r] =
            AfterUpsert([run[r] EXCEPT !.lastCall = NoCall, !.lastFetch = NoFetch,
                                       !.stmtFailed = TRUE],
                        UpsertCatch)]
    /\ UNCHANGED <<config, rows, nextId, clock, lastStmt, started, validated, extracted, hashed>>
    /\ listed' = NoList

Content(text) == [kind |-> "content", text |-> text]

Failure(kind) == [kind |-> kind, text |-> <<>>]

\* GET /events?city=...  with no other parameter
AllOf(city) ==
    [type |-> ABSENT, city |-> city, q |-> ABSENT, from |-> ABSENT, to |-> ABSENT,
     page |-> Unset, pageSize |-> Unset]

\* the table is empty and no run has started
Boot ==
    /\ rows = {}
    /\ nextId = 1
    /\ clock = 1
    /\ run = [r \in RunIds |-> IdleRun]
    /\ lastStmt = NoStmt
    /\ started = 0
    /\ listed = NoList

\* runs one after the other, under any configuration; the primary model
\* answers anything, the verification endpoint a rate limit, an error
\* status, verified or not verified
Init ==
    /\ config \in [primaryKey : BOOLEAN, qiniuKey : BOOLEAN, cronCity : {ABSENT},
                   concurrent : {FALSE}, primary : {PrimaryOutcomes},
                   verify : {{Failure("429"), Failure("status"), Content(VT_TRUE),
                              Content(VT_FALSE)}},
                   queries : {{AllOf(<<"S">>)}}]
    /\ Boot
    /\ validated = NoValidation
    /\ extracted = NoExtraction
    /\ hashed = NoHashing

Next ==
    \/ \E city \in Cities, handler \in SyncHandlers : StartSync(city, handler)
    \/ StartCron
    \/ \E r \in RunIds, out \in config.primary : PrimaryResponse(r, out)
    \/ \E r \in RunIds, out \in config.verify : VerifyResponse(r, out)
    \/ \E r \in RunIds : SleepDone(r)
    \/ \E r \in RunIds : UpsertExecute(r)
    \/ \E r \in RunIds : UpsertFail(r)
    \/ \E queryParams \in config.queries : getEventsList(queryParams)
    \/ \E query \in config.queries : list(query)
    \/ ListDelivered

Spec == Init /\ [][Next]_vars

\* both runs may be in flight at once, for the same city; the primary model
\* answers one of two records of the same identity or fails, the
\* verification endpoint a rate limit or verified
InitConcurrent ==
    /\ config \in [primaryKey : {TRUE}, qiniuKey : {TRUE}, cronCity : {<<"S">>},
                   concurrent : {TRUE},
                   primary : {{Content(Stringify(<<"rA">>)), Content(Stringify(<<"rA2">>)),
                               Failure("status")}},
                   verify : {{Failure("429"), Content(VT_TRUE)}},
                   queries : {{AllOf(<<"S">>)}}]
    /\ Boot
    /\ validated = NoValidation
    /\ extracted = NoExtraction
    /\ hashed = NoHashing

SpecConcurrent == InitConcurrent /\ [][Next]_vars

\* queries with both dates, queries with from and any of the other
\* filters, and queries that page through a city or through the whole table
DateQueries ==
    [type : {ABSENT}, city : {<<"S">>}, q : {ABSENT}, from : {Dm, D2, D3},
     to : {D0, D1, Dm, D2}, page : {Unset}, pageSize : {Unset}]

FromQueries ==
    [type : {ABSENT, EXPO}, city : {ABSENT, <<"S">>}, q : {ABSENT, <<"V">>},
     from : {Dm, D3}, to : {ABSENT}, page : {Unset}, pageSize : {Unset}]

PageQueries ==
    [type : {ABSENT}, city : {<<"S">>, <<>>}, q : {ABSENT}, from : {ABSENT},
     to : {ABSENT}, page : {Unset} \cup 1..MaxPage,
     pageSize : {Unset} \cup 1..MaxPageSize]

ListCities == {<<"S">>, DefaultCity}

\* syncs for two cities, one after the other, fill the table with one-day
\* and several-day events, every candidate verified, and clients list the
\* table between the syncs
InitList ==
    /\ config \in [primaryKey : {TRUE}, qiniuKey : {TRUE}, cronCity : {ABSENT},
                   concurrent : {FALSE},
                   primary : {{Content(Stringify(<<"rA2", "rB">>)),
                               Content(Stringify(<<"rA">>)),
                               Content(Stringify(<<"rB">>))}},
                   verify : {{Content(VT_TRUE)}},
                   queries : {DateQueries \cup FromQueries \cup PageQueries}]
    /\ Boot
    /\ validated = NoValidation
    /\ extracted = NoExtraction
    /\ hashed = NoHashing

NextList ==
    \/ \E city \in ListCities, handler \in SyncHandlers : StartSync(city, handler)
    \/ \E r \in RunIds, out \in config.primary : PrimaryResponse(r, out)
    \/ \E r \in RunIds, out \in config.verify : VerifyResponse(r, out)
    \/ \E r \in RunIds : UpsertExecute(r)
    \/ \E queryParams \in config.queries : getEventsList(queryParams)
    \/ \E query \in config.queries : list(query)
    \/ ListDelivered

SpecList == InitList /\ [][NextList]_vars

\* one record is fetched and the verification endpoint answers anything
InitVerify ==
    /\ config \in [primaryKey : {TRUE}, qiniuKey : {TRUE}, cronCity : {ABSENT},
                   concurrent : {FALSE},
                   primary : {{Content(Stringify(<<"rA">>))}},
                   verify : {VerifyOutcomes},
                   queries : {{AllOf(<<"S">>)}}]
    /\ Boot
    /\ validated = NoValidation
    /\ extracted = NoExtraction
    /\ hashed = NoHashing

SpecVerify == InitVerify /\ [][Next]_vars

\* the validator is handed one record of any shape, or an array of records
InitSchema ==
    /\ config \in [primaryKey : {TRUE}, qiniuKey : {TRUE}, cronCity : {ABSENT},
                   concurrent : {FALSE}, primary : {{}}, verify : {{}},
                   queries : {{}}]
    /\ Boot
    /\ validated \in [item : RecordSpace, items : {<<>>}, phase : {"record"},
                      success : {FALSE}, candidates : {<<>>}]
                       \cup [item : {RawOf("rA")}, items : TokenArrays(MaxLen),
                             phase : {"array"}, success : {FALSE},
                             candidates : {<<>>}]
    /\ extracted = NoExtraction
    /\ hashed = NoHashing

NextSchema ==
    \/ safeParse
    \/ validateItems

SpecSchema == InitSchema /\ [][NextSchema]_vars

\* the extractor and the parse stage are handed one text
InitExtract ==
    /\ config \in [primaryKey : {TRUE}, qiniuKey : {TRUE}, cronCity : {ABSENT},
                   concurrent : {FALSE}, primary : {{}}, verify : {{}},
                   queries : {{}}]
    /\ Boot
    /\ validated = NoValidation
    /\ extracted \in ResponseTexts
    /\ hashed = NoHashing

NextExtract ==
    \/ extractArray
    \/ parseResponse

SpecExtract == InitExtract /\ [][NextExtract]_vars

\* upsertManyEvents is handed two events of any two identities
InitHash ==
    /\ config \in [primaryKey : {TRUE}, qiniuKey : {TRUE}, cronCity : {ABSENT},
                   concurrent : {FALSE}, primary : {{}}, verify : {{}},
                   queries : {{}}]
    /\ Boot
    /\ validated = NoValidation
    /\ extracted = NoExtraction
    /\ hashed \in [phase : {"inputs"}, first : {EventOf(i) : i \in IdentitySpace},
                   second : {EventOf(i) : i \in IdentitySpace},
                   hashes : {<<>>}, stored : {{}}]

NextHash == upsertPair

SpecHash == InitHash /\ [][NextHash]_vars

\* the primary model answers arrays of two schema-valid records, or of
\* valid and invalid records mixed, or fails; the verification endpoint
\* answers a rate limit, verified or not verified
InitSequence ==
    /\ config \in [primaryKey : {TRUE}, qiniuKey : {TRUE}, cronCity : {ABSENT},
                   concurrent : {FALSE},
                   primary : {{Content(Stringify(<<"rA", "rBadDate", "rB">>)),
                               Content(Stringify(<<"rBadType", "rA2">>)),
                               Content(Stringify(<<"rBadType">>)),
                               Failure("status")}},
                   verify : {{Failure("429"), Content(VT_TRUE), Content(VT_FALSE)}},
                   queries : {{AllOf(<<"S">>)}}]
    /\ Boot
    /\ validated = NoValidation
    /\ extracted = NoExtraction
    /\ hashed = NoHashing

SpecSequence == InitSequence /\ [][Next]_vars

----------------------------------------------------------------------------
(* Claims *)

Hashes(rs) == {row.hash : row \in rs}

SameIdentity(a, b) ==
    /\ a.title = b.title
    /\ a.start_date = b.start_date
    /\ a.venue = b.venue
    /\ a.city = b.city

\* C1: whatever batches the runs have upserted, a batch with the same
\* identity twice included, no two rows of the table share a hash.
C1_NoTwoRowsShareAHash ==
    \A a \in rows : \A b \in rows : a.hash = b.hash => a = b

\* a statement whose batch held one hash twice has executed, on a table that
\* held that hash already or not
C1_Witness ==
    /\ lastStmt.by # "none"
    /\ \E i \in 1..Len(lastStmt.values) : \E j \in 1..Len(lastStmt.values) :
          i < j /\ lastStmt.values[i].hash = lastStmt.values[j].hash
    /\ rows # {}

\* C2 as stated: after a statement on a batch of pairwise distinct
\* identities, inserted is the number of events whose hash was not stored
\* before the call and updated the number of those whose hash was.
C2_CountsTellInsertedFromUpdated ==
    LET values == lastStmt.values
        distinct == \A i \in 1..Len(values) : \A j \in 1..Len(values) :
                        values[i].hash = values[j].hash => i = j
        fresh == {i \in 1..Len(values) : values[i].hash \notin Hashes(lastStmt.before)}
    IN  (lastStmt.by # "none" /\ distinct)
            => /\ lastStmt.inserted = Cardinality(fresh)
               /\ lastStmt.updated = Len(values) - Cardinality(fresh)

\* C3: every event a run hands to the store passed the schema and was
\* decided true by the verification client in that run.
C3_OnlyValidatedAndVerifiedAreStored ==
    \A r \in RunIds : \A k \in 1..Len(run[r].batch) :
        \E e \in run[r].approved :
            /\ SchemaAccepts(e)
            /\ run[r].batch[k] = WithHash(Normalize(e, run[r].city))

\* a run hands a batch to the store just after a candidate of the same
\* answer was given up on after three rate-limited attempts
C3_Witness ==
    \E r \in RunIds :
        /\ run[r].pc = "upsert"
        /\ Len(run[r].batch) = 1
        /\ run[r].lastCall.done
        /\ ~run[r].lastCall.value
        /\ run[r].lastCall.seen = <<"429", "429", "429">>

\* C4: when the scheduled run and a manual sync are in flight together and
\* upsert the same identity, every run that has finished its upsert leaves
\* exactly one row for each hash of its batch, in every interleaving.
C4_ConcurrentRunsLeaveOneRow ==
    \A r \in RunIds :
        (run[r].pc = "done" /\ run[r].result.status = "ok")
            => \A k \in 1..Len(run[r].batch) :
                  Cardinality({row \in rows : row.hash = run[r].batch[k].hash}) = 1

\* both runs overlapped, both upserted the same hash and both have finished
C4_Witness ==
    /\ \A r \in RunIds :
          /\ run[r].pc = "done"
          /\ run[r].result.status = "ok"
          /\ run[r].overlap
          /\ Len(run[r].batch) > 0
    /\ \E k \in 1..Len(run["cron"].batch) :
          run["cron"].batch[k].hash = run["manual"].batch[1].hash
    /\ Cardinality(rows) = 1

\* C5: three answers 429 in a row to one candidate make the client send
\* exactly 3 requests, wait 1000 ms then 2000 ms and nothing after the third,
\* and return false; the run goes on.
C5_ThreeRateLimitsGiveUp ==
    \A r \in RunIds :
        /\ (run[r].pc = "sleep" /\ run[r].seen = <<"429">>)
              => run[r].waits = <<1000>> /\ run[r].attempt = 1
        /\ (run[r].pc = "sleep" /\ run[r].seen = <<"429", "429">>)
              => run[r].waits = <<1000, 2000>> /\ run[r].attempt = 2
        /\ (run[r].lastCall.done /\ run[r].lastCall.seen = <<"429", "429", "429">>)
              => /\ run[r].lastCall.requests = 3
                 /\ run[r].lastCall.waits = <<1000, 2000>>
                 /\ run[r].lastCall.value = FALSE
                 /\ run[r].pc # "sleep"
                 /\ run[r].result.status \notin {"error", "failed"}

C5_Witness ==
    \E r \in RunIds :
        /\ run[r].lastCall.done
        /\ run[r].lastCall.seen = <<"429", "429", "429">>
        /\ run[r].lastCall.requests = 3

\* C6: with the primary or the verification credential absent, a fetch
\* returns no items at once and no request goes to either endpoint.
C6_NoCredentialNoRequest ==
    (~config.primaryKey \/ ~config.qiniuKey)
        => \A r \in RunIds :
              /\ run[r].pc \notin {"primary", "verify", "sleep"}
              /\ ~run[r].askedPrimary
              /\ ~run[r].askedVerify
              /\ run[r].lastFetch.done => run[r].lastFetch.items = <<>>
              /\ run[r].handler # "none" => run[r].lastFetch.done

\* the primary credential is set, the verification credential is not, and
\* a sync has returned
C6_Witness ==
    /\ config.primaryKey
    /\ ~config.qiniuKey
    /\ run["manual"].pc = "done"
    /\ run["manual"].lastFetch.done
    /\ run["manual"].lastFetch.items = <<>>

\* the last value set of the statement with hash h
LastWith(values, h) ==
    values[CHOOSE i \in 1..Len(values) :
              /\ values[i].hash = h
              /\ \A j \in (i + 1)..Len(values) : values[j].hash # h]

\* C7: a statement carrying an event whose (title, start_date, venue, city)
\* is that of a stored row adds no row for it, and the row then has the
\* type, address, source_url, price_range, organizer and end_date of the
\* later input and a refreshed updated_at.
C7_SameIdentityOverwrites ==
    lastStmt.by # "none" =>
        /\ Cardinality(rows)
             = Cardinality(Hashes(lastStmt.before)
                             \cup {lastStmt.values[k].hash : k \in 1..Len(lastStmt.values)})
        /\ \A k \in 1..Len(lastStmt.values) : \A old \in lastStmt.before :
              SameIdentity(lastStmt.values[k], old) =>
                  \E row \in rows :
                      LET v == LastWith(lastStmt.values, old.hash)
                      IN  /\ row.id = old.id
                          /\ SameIdentity(row, old)
                          /\ \A other \in rows : SameIdentity(other, old) => other = row
                          /\ row.type = v.type
                          /\ row.address = v.address
                          /\ row.source_url = v.source_url
                          /\ row.price_range = v.price_range
                          /\ row.organizer = v.organizer
                          /\ row.end_date = v.end_date
                          /\ row.updated_at = lastStmt.at
                          /\ row.updated_at > old.updated_at

\* a stored row was upserted again with every other field changed
C7_Witness ==
    /\ lastStmt.by # "none"
    /\ Cardinality(rows) = Cardinality(lastStmt.before)
    /\ \E old \in lastStmt.before :
          /\ SameIdentity(lastStmt.values[1], old)
          /\ lastStmt.values[1].type # old.type
          /\ lastStmt.values[1].address # old.address
          /\ lastStmt.values[1].end_date # old.end_date
          /\ lastStmt.values[1].source_url # old.source_url
          /\ lastStmt.values[1].price_range # old.price_range
          /\ lastStmt.values[1].organizer # old.organizer

FetchFailures ==
    {"throw", "status", "badbody", "nonstring", "empty", "unparseable", "nonarray"}

\* C8: a fetch never throws; a transport failure, a non-2xx status, an
\* undecodable body, empty, unparseable or non-array content give no items
\* and the date that was asked, and the scheduled run goes on to its next
\* date after such a fetch.
C8_FetchNeverThrows ==
    \A r \in RunIds :
        run[r].lastFetch.done =>
            /\ ~run[r].lastFetch.threw
            /\ run[r].lastFetch.targetDate = run[r].lastFetch.asked
            /\ run[r].result.status \notin {"error", "failed"}
            /\ run[r].lastFetch.kind \in FetchFailures =>
                  /\ run[r].lastFetch.items = <<>>
                  /\ (run[r].handler = "performDailyEventSync"
                        /\ run[r].lastFetch.asked + 1 < daysToFetch)
                        => /\ run[r].pc = "primary"
                           /\ run[r].targetDate = run[r].lastFetch.asked + 1

\* the scheduled run's fetch for its first date failed in transport and the
\* request for the next date is out, the events of no date lost
C8_Witness ==
    /\ run["cron"].lastFetch.done
    /\ run["cron"].lastFetch.kind = "throw"
    /\ run["cron"].lastFetch.asked = 0
    /\ run["cron"].pc = "primary"

\* C9: a storage error makes upsertManyEvents throw and the run end in
\* failure (the sync trigger with an error, the scheduled run in its failure
\* branch), with no counts and no empty result reported.
C9_StorageErrorFailsTheRun ==
    \A r \in RunIds :
        run[r].stmtFailed =>
            /\ run[r].pc = "done"
            /\ run[r].result.status
                 = (IF run[r].handler \in SyncHandlers THEN "error" ELSE "failed")
            /\ ~run[r].result.hasCounts
            /\ ~run[r].result.hasMessage

C9_Witness ==
    /\ run["manual"].stmtFailed
    /\ run["manual"].handler = "synchronizeEventsFromAI"
    /\ run["manual"].result.status = "error"

\* C10 as stated: a sync call in which no event survives returns success
\* with targetDate, a message, inserted = 0 and updated = 0, and writes
\* nothing.
C10_ZeroEventsSyncSucceedsWithMessage ==
    LET rr == run["manual"]
    IN  (rr.pc = "done" /\ rr.lastFetch.done /\ rr.lastFetch.items = <<>>)
            => /\ rr.result.status = "ok"
               /\ rr.result.targetDate = rr.lastFetch.targetDate
               /\ rr.result.hasMessage
               /\ rr.result.hasCounts
               /\ rr.result.inserted = 0
               /\ rr.result.updated = 0
               /\ rr.batch = <<>>
               /\ lastStmt = NoStmt

\* the last day of the event's active interval
ActiveEnd(event) == IF event.end_date = NULL THEN event.start_date ELSE event.end_date

\* the event passes every type, city and keyword filter the query supplies
PassesSuppliedFilters(event, q) ==
    /\ Truthy(q.type) => event.type = q.type
    /\ Truthy(q.city) => event.city = q.city
    /\ Truthy(q.q) => \/ Like(event.title, q.q)
                      \/ Like(event.venue, q.q)
                      \/ Like(event.address, q.q)

C12_FromOnlyKeepsTheOtherFilters ==
    (/\ listed.handler = "getEventsList"
     /\ Truthy(listed.query.from) /\ ~Truthy(listed.query.to)
     /\ Len(listed.items) = listed.total)
        => SeqToSet(listed.items)
             = {event \in rows : /\ PassesSuppliedFilters(event, listed.query)
                                 /\ DateLeq(listed.query.from, ActiveEnd(event))}

\* C13: every page holds at most pageSize rows, in non-decreasing
\* start_date order, and is the slice at offset (page - 1) * pageSize of
\* the matching rows ordered by start_date; total is the number of matching
\* rows whatever the page and the pageSize.
C13_PageIsASliceOfTheOrderedMatches ==
    listed.handler # "none" =>
        LET matching == Matching(listed.handler, rows, listed.query)
            offset == (listed.page - 1) * listed.pageSize
            left == listed.total - offset
        IN  /\ listed.page >= 1 /\ listed.pageSize >= 1
            /\ listed.total = Cardinality(matching)
            /\ Len(listed.items) <= listed.pageSize
            /\ Len(listed.items)
                 = (IF left <= 0 THEN 0
                    ELSE IF left < listed.pageSize THEN left ELSE listed.pageSize)
            /\ \A i \in 1..Len(listed.items) : \A j \in i..Len(listed.items) :
                  DateLeq(listed.items[i].start_date, listed.items[j].start_date)
            /\ \E ordered \in OrdersByStartDate(matching) :
                  \A k \in 1..Len(listed.items) : listed.items[k] = ordered[offset + k]

\* the second page of two rows each, of a table of at least three matching
\* rows, two of them starting on the same day
C13_Witness ==
    /\ listed.handler = "getEventsList"
    /\ listed.page = 2
    /\ listed.pageSize = 2
    /\ listed.total >= 3
    /\ Len(listed.items) >= 1
    /\ \E a \in rows : \E b \in rows : a # b /\ a.start_date = b.start_date

Last(seq) == seq[Len(seq)]

\* C14: the verification client returns true only when the deciding answer
\* is a success whose content holds an object with verified: true; an object
\* whose verified is the string "true", the number 1 or missing, and content
\* with no parsable object, give false.
C14_TrueOnlyOnBooleanTrue ==
    \A r \in RunIds :
        LET call == run[r].lastCall
        IN  call.done =>
              /\ call.value
                    => /\ Last(call.seen) = "content"
                       /\ call.content \in {VT_TRUE, <<"p">> \o VT_TRUE \o <<"p">>}
              /\ (/\ Last(call.seen) = "content"
                  /\ call.content \in {<<"{", "verified", ":", "\"true\"", "}">>,
                                       <<"{", "verified", ":", "1", "}">>,
                                       <<"{", "reason", ":", "\"r\"", "}">>,
                                       <<"{", "verified", ":", "}">>,
                                       <<"p">>, <<>>, VT_FALSE})
                    => ~call.value
              /\ run[r].handler \in SyncHandlers
                    => (call.value <=> run[r].approved # {})

\* the endpoint answered with verified: "true", a string, after a rate
\* limit, and the candidate was not kept
C14_Witness ==
    \E r \in RunIds :
        /\ run[r].lastCall.done
        /\ run[r].lastCall.seen = <<"429", "content">>
        /\ run[r].lastCall.content = <<"{", "verified", ":", "\"true\"", "}">>
        /\ ~run[r].lastCall.value
        /\ run[r].approved = {}

\* C15: an error status other than 429 ends the call at once with false,
\* on whichever attempt it comes: it is the last answer of the call, no
\* wait follows it and no request is sent after it.
C15_ErrorStatusFailsAtOnce ==
    \A r \in RunIds :
        /\ run[r].pc \in {"sleep", "verify"}
              => \A i \in 1..Len(run[r].seen) : run[r].seen[i] # "status"
        /\ (run[r].lastCall.done /\ Last(run[r].lastCall.seen) = "status")
              => /\ ~run[r].lastCall.value
                 /\ run[r].lastCall.requests = Len(run[r].lastCall.seen)
                 /\ Len(run[r].lastCall.waits) = Len(run[r].lastCall.seen) - 1
                 /\ \A i \in 1..(Len(run[r].lastCall.seen) - 1) :
                       run[r].lastCall.seen[i] # "status"
                 /\ run[r].pc \notin {"sleep", "verify"}

\* the error status came on the third attempt, after a rate limit and a
\* transport exception
C15_Witness ==
    \E r \in RunIds :
        /\ run[r].lastCall.done
        /\ run[r].lastCall.seen = <<"429", "throw", "status">>
        /\ run[r].lastCall.waits = <<1000, 2000>>

\* C16: when every request of a call fails with a transport exception, the
\* client makes exactly 3 attempts, waits 1000 ms then 2000 ms between
\* them, and returns false without throwing.
C16_TransportFailuresAreRetriedThreeTimes ==
    \A r \in RunIds :
        /\ (/\ run[r].pc = "sleep"
            /\ \A i \in 1..Len(run[r].seen) : run[r].seen[i] = "throw")
              => /\ Len(run[r].seen) \in {1, 2}
                 /\ run[r].waits = SubSeq(<<1000, 2000>>, 1, Len(run[r].seen))
        /\ (/\ run[r].lastCall.done
            /\ \A i \in 1..Len(run[r].lastCall.seen) : run[r].lastCall.seen[i] = "throw")
              => /\ run[r].lastCall.seen = <<"throw", "throw", "throw">>
                 /\ run[r].lastCall.requests = 3
                 /\ run[r].lastCall.waits = <<1000, 2000>>
                 /\ ~run[r].lastCall.value
                 /\ run[r].result.status \notin {"error", "failed"}
                 /\ ~run[r].lastFetch.threw

C16_Witness ==
    \E r \in RunIds :
        /\ run[r].lastCall.done
        /\ run[r].lastCall.seen = <<"throw", "throw", "throw">>
        /\ run[r].lastCall.requests = 3
        /\ run[r].lastFetch.done
        /\ run[r].lastFetch.items = <<>>

\* four digits, two digits, two digits, with hyphens between
DateShape(v) ==
    /\ IsString(v)
    /\ Len(v) = 10
    /\ \A i \in 1..10 : IF i \in {5, 8} THEN v[i] = "-" ELSE v[i] \in Digits

\* a date field that was sent, is not null and is no such date
Malformed(v) == v \notin {ABSENT, NULL} /\ ~DateShape(v)

\* a field that is absent, null or a string
AbsentNullOrString(v) == v \in {ABSENT, NULL} \/ IsString(v)

\* C17: the validator accepts every record with a non-empty title, a type
\* of expo or concert and a start_date of the shape dddd-dd-dd whose other
\* fields are absent, null or well-formed; it rejects every record whose
\* type is outside the enum or whose start_date or end_date is malformed;
\* and it comes to a verdict on every record.
C17_ValidatorAcceptsExactlyTheWellFormed ==
    LET item == validated.item
    IN  /\ validated.phase = "record" => ENABLED safeParse
        /\ validated.phase = "parsed" =>
              /\ (/\ IsString(item.title) /\ item.title # <<>>
                  /\ item.type \in {EXPO, CONCERT}
                  /\ DateShape(item.start_date)
                  /\ item.end_date \in {ABSENT, NULL} \/ DateShape(item.end_date)
                  /\ item.source_url \in {ABSENT, NULL, <<"h", ":", "x">>}
                  /\ AbsentNullOrString(item.venue)
                  /\ AbsentNullOrString(item.address)
                  /\ AbsentNullOrString(item.price_range)
                  /\ AbsentNullOrString(item.organizer))
                    => /\ validated.success
                       /\ Len(validated.candidates) = 1
              /\ (\/ item.type \notin {EXPO, CONCERT}
                  \/ Malformed(item.start_date)
                  \/ Malformed(item.end_date))
                    => /\ ~validated.success
                       /\ validated.candidates = <<>>

\* a record whose title is one blank, with no end_date, venue or
\* source_url, was accepted
C17_Witness ==
    /\ validated.phase = "parsed"
    /\ validated.success
    /\ validated.item.title = <<" ">>
    /\ validated.item.end_date = ABSENT
    /\ validated.item.venue = ABSENT
    /\ validated.item.source_url = ABSENT

\* the positions of the array whose record the schema accepts
ValidPositions(items) == {i \in 1..Len(items) : SchemaAccepts(RawOf(items[i]))}

\* C18: of an array of raw records, the candidates are exactly the
\* schema-valid records in their original order, each unchanged by the
\* invalid records around it.
C18_ValidationIsPerRecord ==
    validated.phase = "filtered" =>
        LET valid == ValidPositions(validated.items)
        IN  /\ Len(validated.candidates) = Cardinality(valid)
            /\ \A k \in 1..Len(validated.candidates) :
                  \E i \in valid :
                      /\ Cardinality({j \in valid : j <= i}) = k
                      /\ validated.candidates[k] = SchemaData(RawOf(validated.items[i]))

\* two valid records came through with an invalid one between them
C18_Witness ==
    /\ validated.phase = "filtered"
    /\ validated.items = <<"rA", "rBadDate", "rB">>
    /\ Len(validated.candidates) = 2
    /\ validated.candidates[2].title = <<"B">>

\* C19: the hash of every stored row is the digest of the row's own title,
\* start_date, venue (null as empty) and city joined by "|", and stays the
\* hash of that row whatever its type, address, end_date, source_url,
\* price_range and organizer are changed to.
C19_HashIsAFunctionOfTheIdentity ==
    \A row \in rows :
        /\ row.hash = <<"md5">> \o row.title \o <<"|">> \o row.start_date \o <<"|">>
                         \o (IF row.venue = NULL THEN <<>> ELSE row.venue)
                         \o <<"|">> \o row.city
        /\ \A type \in {EXPO, CONCERT} : \A other \in {NULL, <<"x">>, D2} :
              calculateEventHash([row EXCEPT !.type = type, !.address = other,
                                             !.end_date = other, !.source_url = other,
                                             !.price_range = other, !.organizer = other])
                = row.hash

\* a stored row has been overwritten by an event of its identity with
\* another type and end_date, and a row without venue is stored as well
C19_Witness ==
    /\ \E row \in rows : /\ row.updated_at > row.created_at
                          /\ row.type = CONCERT
                          /\ row.end_date = D2
    /\ \E row \in rows : row.venue = NULL

\* C20: every step of a sync, of the scheduled run or of a list query keeps
\* every stored row: a row of the same hash, the same id and the same
\* created_at is in the table after the step.
C20_RowsAreNeverDeleted ==
    [][\A row \in rows :
          \E kept \in rows' : /\ kept.hash = row.hash
                               /\ kept.id = row.id
                               /\ kept.created_at = row.created_at]_vars

\* a row has been overwritten since it was inserted, a second row was
\* inserted after it, and the table has just been listed
C20_Witness ==
    /\ \E row \in rows : \E later \in rows :
          /\ row.updated_at > row.created_at
          /\ later.id > row.id
    /\ listed.handler # "none"

\* the symbol c occurs in the text
Occurs(c, text) == \E i \in 1..Len(text) : text[i] = c

\* C21 as stated: whatever prose is wrapped around one valid array (none
\* included, which is the text JSON.stringify gives), the extractor and the
\* parse stage recover that array.
C21_AnyProseAroundAnArrayIsRecovered ==
    (extracted.wrapped /\ extracted.phase \in {"extracted", "parsed"})
        => (extracted.found /\ extracted.items = extracted.array)

\* C21: the text JSON.stringify gives for an array is recovered as that
\* array; so is that text with prose around it, provided the prose has no
\* "[" before the array and no "]" after it; and on every text the extractor
\* and the parse stage end with an array or with the definite result of no
\* value (null, no items), never with an exception.
C21_ExtractionRoundTrip ==
    /\ extracted.phase = "text"
          => /\ extractJsonArrayFromResponse(extracted.text).found \in BOOLEAN
             /\ Len(RawEventData(extracted.text)) >= 0
    /\ (extracted.phase \in {"extracted", "parsed"} /\ extracted.wrapped
           /\ ~Occurs("[", extracted.before) /\ ~Occurs("]", extracted.after))
          => (extracted.found /\ extracted.items = extracted.array)
    /\ (extracted.phase = "extracted" /\ ~extracted.found) => extracted.items = <<>>

\* the extractor has recovered a two-record array from prose that has a
\* stray "]" before the array and a stray "[" after it
C21_Witness ==
    /\ extracted.phase = "extracted"
    /\ extracted.before = <<"p", "]">>
    /\ extracted.after = <<"[", "p">>
    /\ extracted.array = <<"rA", "rA2">>
    /\ extracted.found
    /\ extracted.items = <<"rA", "rA2">>

\* C22: the step in which a sync's fetch ends with no event, so that the
\* handler calls upsertManyEvents with an empty list, ends the handler with
\* inserted 0 and updated 0, issues no statement, and leaves the rows, the
\* id counter and the clock of the store as they were.
C22_EmptyUpsertTouchesNothing ==
    [][\A r \in RunIds :
          (/\ run[r].pc \in {"primary", "verify"}
           /\ run[r].handler = "sync"
           /\ run'[r].lastFetch.done
           /\ ~run'[r].lastFetch.threw
           /\ run'[r].lastFetch.items = <<>>)
            => /\ run'[r].pc = "done"
               /\ run'[r].result.status = "ok"
               /\ run'[r].result.inserted = 0
               /\ run'[r].result.updated = 0
               /\ rows' = rows
               /\ nextId' = nextId
               /\ clock' = clock
               /\ lastStmt' = lastStmt]_vars

\* a sync whose only candidate was not verified has returned zero counts
\* over a table that holds a row, and no statement was issued in its run
C22_Witness ==
    /\ rows # {}
    /\ run["manual"].handler = "sync"
    /\ run["manual"].pc = "done"
    /\ run["manual"].lastFetch.done
    /\ run["manual"].lastFetch.items = <<>>
    /\ run["manual"].result.status = "ok"
    /\ run["manual"].result.inserted = 0
    /\ lastStmt = NoStmt

\* the hash of an event of the given title, start_date and venue in city c
HashInCity(v, c) ==
    md5(v.title \o <<"|">> \o v.start_date \o <<"|">>
          \o (IF v.venue = NULL THEN <<>> ELSE v.venue) \o <<"|">> \o c)

\* C23: every value set a sync or a scheduled run for city c hands to the
\* store, and every row its statement has written, has city c and the hash
\* of its title, start_date and venue with c, whether or not the model's
\* record had a city of its own.
C23_StoredCityIsTheRunsCity ==
    /\ \A r \in RunIds :
          run[r].pc = "upsert" =>
              \A k \in 1..Len(run[r].batch) :
                  /\ run[r].batch[k].city = run[r].city
                  /\ run[r].batch[k].hash = HashInCity(run[r].batch[k], run[r].city)
    /\ lastStmt.by # "none" =>
          \A row \in rows :
              row.updated_at = lastStmt.at =>
                  /\ row.city = run[lastStmt.by].city
                  /\ row.hash = HashInCity(row, run[lastStmt.by].city)

\* the scheduled run has just written the row of a record that named a
\* city of its own, after a sync for the same city had stored its events
C23_Witness ==
    /\ lastStmt.by = "cron"
    /\ run["cron"].city = <<"S">>
    /\ run["manual"].pc = "done"
    /\ run["manual"].result.status = "ok"
    /\ run["manual"].result.inserted >= 1
    /\ \E k \in 1..Len(lastStmt.values) :
          /\ lastStmt.values[k].type = CONCERT
          /\ RawOf("rA2").city = <<"W">>
          /\ \E row \in rows : /\ row.hash = lastStmt.values[k].hash
                                /\ row.city = <<"S">>
                                /\ row.updated_at = lastStmt.at

\* the run is inside a Verification Client call: a request is out, or the
\* call sleeps before its next request
Verifying(rr) == rr.pc \in {"verify", "sleep"}

\* the candidates some answer of the primary model leaves after the schema
\* check: its schema-valid records, in their order
CandidatesOfSomeAnswer(cands) ==
    \E out \in config.primary :
        /\ out.kind = "content"
        /\ cands = SchemaFilter(RawEventData(out.text))

\* C24: a run has one position, so one request at most is out; the primary
\* request is out while no candidate is being verified; the candidates
\* verified are the schema-valid records of the answer in their order; the
\* Verification Client starts on candidate 1, stays on its candidate
\* through its retries, and a decision moves it to the next candidate
\* (never past one) or, after the last, ends the fetch.
C24_CandidatesAreVerifiedOneAfterAnother ==
    [][\A r \in RunIds :
          /\ run'[r].pc = "primary" =>
                (run'[r].cands = <<>> /\ run'[r].idx = 0 /\ run'[r].attempt = 0)
          /\ Verifying(run'[r]) =>
                /\ run'[r].idx \in 1..Len(run'[r].cands)
                /\ run'[r].attempt \in 1..maxAttempts
                /\ CandidatesOfSomeAnswer(run'[r].cands)
          /\ (run[r].pc = "primary" /\ Verifying(run'[r])) =>
                (run'[r].idx = 1 /\ run'[r].attempt = 1 /\ run'[r].pc = "verify")
          /\ (Verifying(run[r]) /\ run'[r] # run[r]) =>
                \/ /\ Verifying(run'[r])
                   /\ run'[r].cands = run[r].cands
                   /\ run'[r].idx = run[r].idx
                   /\ ~run'[r].lastCall.done
                \/ /\ run'[r].pc = "verify"
                   /\ run'[r].cands = run[r].cands
                   /\ run'[r].idx = run[r].idx + 1
                   /\ run'[r].attempt = 1
                   /\ run'[r].lastCall.done
                \/ /\ run[r].idx = Len(run[r].cands)
                   /\ run'[r].lastCall.done
                   /\ run'[r].lastFetch.done
                   /\ ~Verifying(run'[r])]_vars

\* the answer held an invalid record between two valid ones; the first
\* valid one has been decided (not verified, after a rate limit) and the
\* request for the second is out
C24_Witness ==
    /\ run["manual"].pc = "verify"
    /\ run["manual"].cands = <<SchemaData(RawOf("rA")), SchemaData(RawOf("rB"))>>
    /\ run["manual"].idx = 2
    /\ run["manual"].attempt = 1
    /\ run["manual"].lastCall.done
    /\ run["manual"].lastCall.requests = 2
    /\ ~run["manual"].lastCall.value

\* the scheduled run's fetch of one date ends in this step
CronFetchEnds ==
    /\ run["cron"].pc \in {"primary", "verify"}
    /\ run'["cron"] # run["cron"]
    /\ ~Verifying(run'["cron"])

\* C25: the scheduled run fetches date 0 first; when the fetch of a date
\* ends, whatever it yielded (a failure and zero candidates included), its
\* events are appended to the events gathered so far and the next date is
\* fetched, until the last date of the window; then nothing is done if no
\* event was gathered, and otherwise one statement with all of them is
\* issued, after which the run ends.
C25_EveryDateIsFetchedThenOneUpsert ==
    [][LET c == run["cron"]
           d == run'["cron"]
       IN  /\ (~Active(c) /\ d.pc = "primary") =>
                 (d.i = 0 /\ d.targetDate = 0 /\ d.aggregatedEvents = <<>>)
           /\ d.pc \in {"primary", "verify", "sleep"} =>
                 (d.i < daysToFetch /\ d.targetDate = d.i)
           /\ CronFetchEnds =>
                 /\ d.lastFetch.done
                 /\ d.lastFetch.asked = c.i
                 /\ d.i = c.i + 1
                 /\ d.aggregatedEvents =
                       c.aggregatedEvents \o NormalizeAll(d.lastFetch.items, c.city)
                 /\ IF d.i < daysToFetch
                    THEN d.pc = "primary" /\ rows' = rows
                    ELSE IF d.aggregatedEvents = <<>>
                    THEN d.pc = "done" /\ rows' = rows /\ lastStmt' = lastStmt
                    ELSE /\ d.pc = "upsert"
                         /\ rows' = rows
                         /\ d.batch = [k \in 1..Len(d.aggregatedEvents) |->
                                          WithHash(d.aggregatedEvents[k])]
           /\ d.pc = "upsert" => d.i = daysToFetch
           /\ (c.pc = "upsert" /\ d # c) => d.pc = "done"]_vars

\* the first date yielded no event, the fetch went on to the last date,
\* which yielded one, and the statement with that event is about to be
\* issued
C25_Witness ==
    /\ run["cron"].pc = "upsert"
    /\ run["cron"].i = daysToFetch
    /\ run["cron"].lastFetch.done
    /\ run["cron"].lastFetch.asked = daysToFetch - 1
    /\ Len(run["cron"].lastFetch.items) = 1
    /\ Len(run["cron"].batch) = 1

\* what an attempt saw that sends the loop to its catch block or to its
\* rate-limit branch: retried while attempts are left
Retried == {"429", "throw", "badbody", "nonstring"}

RECURSIVE SumOf(_)
SumOf(seq) == IF seq = <<>> THEN 0 ELSE Head(seq) + SumOf(Tail(seq))

\* C26: whatever the verification endpoint answers, a call is at attempt 1,
\* 2 or 3, sleeps only before a further attempt, and any answer to attempt
\* 3 ends it; a finished call has returned a boolean after at most 3
\* requests and 2 waits, the waits being 1000 then 2000 (3000 in all at
\* most), one wait after every request but the last, whether the requests
\* before the last met a rate limit or an exception.
C26_CallEndsWithinThreeAttempts ==
    \A r \in RunIds :
        LET rr == run[r]
            call == rr.lastCall
        IN  /\ Verifying(rr) =>
                  /\ rr.attempt \in 1..maxAttempts
                  /\ rr.waits = SubSeq(<<1000, 2000>>, 1, Len(rr.waits))
                  /\ \A i \in 1..Len(rr.seen) : rr.seen[i] \in Retried
            /\ rr.pc = "sleep" =>
                  (rr.attempt < maxAttempts /\ Len(rr.waits) = rr.attempt)
            /\ rr.pc = "verify" =>
                  /\ Len(rr.waits) = rr.attempt - 1
                  /\ rr.attempt = maxAttempts =>
                        \A out \in config.verify : ~VerifyStep(out, rr.attempt).retry
            /\ (call.done /\ call.requests > 0) =>
                  /\ call.value \in BOOLEAN
                  /\ call.requests \in 1..3
                  /\ Len(call.seen) = call.requests
                  /\ Len(call.waits) = call.requests - 1
                  /\ call.waits = SubSeq(<<1000, 2000>>, 1, call.requests - 1)
                  /\ SumOf(call.waits) <= 3000
                  /\ \A i \in 1..(call.requests - 1) : call.seen[i] \in Retried

\* a call has met a rate limit, then an exception, then a rate limit, and
\* has returned false after 3 requests and waits of 1000 and 2000
C26_Witness ==
    \E r \in RunIds :
        /\ run[r].lastCall.done
        /\ run[r].lastCall.seen = <<"429", "throw", "429">>
        /\ run[r].lastCall.waits = <<1000, 2000>>
        /\ run[r].lastCall.requests = 3
        /\ ~run[r].lastCall.value

\* the content of the answer holds an object whose verified is true
SaysVerified(content) ==
    /\ extractJsonObjectFromResponse(content).found
    /\ extractJsonObjectFromResponse(content).verified = "true"

\* C27: in a finished call every attempt before the last met a rate limit
\* or an exception, and no request follows the last; when the last answer
\* is a success whose content says verified true, the call has returned
\* true, after a wait of 1000 if it was attempt 2 and of 1000 then 2000 if
\* it was attempt 3.
C27_FirstDecidingAttemptDecides ==
    \A r \in RunIds :
        LET call == run[r].lastCall
        IN  (call.done /\ call.requests > 0) =>
                /\ \A i \in 1..(Len(call.seen) - 1) : call.seen[i] \in Retried
                /\ call.requests = Len(call.seen)
                /\ ~Verifying(run[r])
                /\ (Last(call.seen) = "content" /\ SaysVerified(call.content)) =>
                      /\ call.value
                      /\ call.requests = 2 => call.waits = <<1000>>
                      /\ call.requests = 3 => call.waits = <<1000, 2000>>

\* an exception, then a rate limit, then verified true: the call has
\* returned true at its third request
C27_Witness ==
    \E r \in RunIds :
        /\ run[r].lastCall.done
        /\ run[r].lastCall.seen = <<"throw", "429", "content">>
        /\ run[r].lastCall.content = VT_TRUE
        /\ run[r].lastCall.waits = <<1000, 2000>>
        /\ run[r].lastCall.value

\* the attempts of the call the run is in, or of the call it has finished:
\* what they saw, the waits made, whether the call is over
Attempts(rr) ==
    IF Verifying(rr)
    THEN [seen |-> rr.seen, waits |-> rr.waits, over |-> FALSE, value |-> FALSE,
          content |-> <<>>]
    ELSE [seen |-> rr.lastCall.seen, waits |-> rr.lastCall.waits,
          over |-> rr.lastCall.done, value |-> rr.lastCall.value,
          content |-> rr.lastCall.content]

\* attempt i of the call was followed by the backoff wait and a retry, or
\* was the last of the budget and ended the call with false
RetriedWithinBudget(a, i) ==
    IF i <= Len(a.waits)
    THEN i < maxAttempts /\ a.waits[i] = SubSeq(<<1000, 2000>>, 1, i)[i]
    ELSE a.over /\ i = maxAttempts /\ ~a.value

\* attempt i of the call ended it at once with false
EndedTheCallWithFalse(a, i) ==
    /\ i = Len(a.seen)
    /\ a.over
    /\ ~a.value
    /\ Len(a.waits) = i - 1

C29_NonArrayValueYieldsNothing ==
    extracted.phase = "parsed" =>
        LET direct == JSONParse(extracted.text)
            slice == extractJsonArrayFromResponse(extracted.text)
        IN  /\ (direct.ok /\ ~direct.isArray) => extracted.items = <<>>
            /\ (direct.ok /\ direct.isArray) => extracted.items = direct.items
            /\ (extracted.items # <<>> /\ ~(direct.ok /\ direct.isArray))
                  => (~direct.ok /\ slice.found /\ extracted.items = slice.items)

\* an object that wraps an array of one record has been parsed: no item is
\* handed on, though the slice of the text is that array
C29_Witness ==
    /\ extracted.phase = "parsed"
    /\ extracted.text = <<"{", "k", ":", "[", "rA", "]", "}">>
    /\ JSONParse(extracted.text).ok
    /\ extractJsonArrayFromResponse(extracted.text).items = <<"rA">>
    /\ extracted.items = <<>>

\* the identity of an event: title, start_date, venue with null taken as
\* the empty string, city
IdentityOf(event) ==
    <<event.title, event.start_date, Coalesce(event.venue, <<>>), event.city>>

\* C30: two events handed to upsertManyEvents whose identities differ get
\* different hashes (the digest taken as collision free) and are stored as
\* two rows.
C30_DifferentIdentitiesDifferentHashes ==
    (hashed.phase = "stored" /\ IdentityOf(hashed.first) # IdentityOf(hashed.second))
        => /\ hashed.hashes[1] # hashed.hashes[2]
           /\ Cardinality(hashed.stored) = 2

====
